---------------------------- MODULE Spec2Model ----------------------------
(***************************************************************************)
(* Verification-and-attestation pipeline of the TLSN verifier service.    *)
(*                                                                         *)
(* Text is modelled character by character: a String is a sequence of      *)
(* one-character strings, a byte vector a sequence of numbers 0..255.      *)
(* The library calls the verifier makes on them (lines, trim, the two     *)
(* regular expressions, hex, from_utf8_lossy) are operators that compute   *)
(* what the calls compute on those sequences.                              *)
(***************************************************************************)
EXTENDS Integers, Sequences, FiniteSets, TLC

(***************************************************************************)
(* Characters and bytes                                                    *)
(***************************************************************************)

\* The printable ASCII characters, code 32 (space) to 126 (~), in code order
\* (code 96 is written GRAVE: the lexer takes no grave accent in a string).
Printable ==
    << " ", "!", "\"", "#", "$", "%", "&", "'", "(", ")", "*", "+", ",", "-", ".", "/",
       "0", "1", "2", "3", "4", "5", "6", "7", "8", "9", ":", ";", "<", "=", ">", "?",
       "@", "A", "B", "C", "D", "E", "F", "G", "H", "I", "J", "K", "L", "M", "N", "O",
       "P", "Q", "R", "S", "T", "U", "V", "W", "X", "Y", "Z", "[", "\\", "]", "^", "_",
       "GRAVE", "a", "b", "c", "d", "e", "f", "g", "h", "i", "j", "k", "l", "m", "n", "o",
       "p", "q", "r", "s", "t", "u", "v", "w", "x", "y", "z", "{", "|", "}", "~" >>

\* U+FFFD, the character from_utf8_lossy puts in place of an invalid byte.
ReplacementChar == "U+FFFD"

\* The byte of an ASCII character (str::as_bytes on ASCII text).
Ord(c) ==
    CASE c = "\t" -> 9
      [] c = "\n" -> 10
      [] c = "\r" -> 13
      [] OTHER -> 31 + (CHOOSE k \in 1..Len(Printable) : Printable[k] = c)

\* One byte decoded as UTF-8, lossily. The transcripts of the model hold NUL
\* (written NUL), tab, LF, CR, printable ASCII and the byte 255, which no
\* UTF-8 sequence contains.
Chr(b) ==
    CASE b = 0 -> "NUL"
      [] b = 9 -> "\t"
      [] b = 10 -> "\n"
      [] b = 13 -> "\r"
      [] b \in 32..126 -> Printable[b - 31]
      [] OTHER -> ReplacementChar

\* str::as_bytes
AsBytes(s) == [i \in 1..Len(s) |-> Ord(s[i])]

\* String::from_utf8_lossy
from_utf8_lossy(bytes) == [i \in 1..Len(bytes) |-> Chr(bytes[i])]

HexDigits == << "0", "1", "2", "3", "4", "5", "6", "7", "8", "9", "a", "b", "c", "d", "e", "f" >>

\* hex::encode: two lower-case digits per byte, high nibble first.
hex_encode(bytes) ==
    [i \in 1..(2 * Len(bytes)) |->
        LET b == bytes[(i + 1) \div 2]
        IN  IF i % 2 = 1 THEN HexDigits[(b \div 16) + 1] ELSE HexDigits[(b % 16) + 1]]

\* The value of a hex digit in either case, -1 for any other character.
HexVal(c) ==
    IF \E k \in 1..16 : HexDigits[k] = c
    THEN (CHOOSE k \in 1..16 : HexDigits[k] = c) - 1
    ELSE CASE c = "A" -> 10 [] c = "B" -> 11 [] c = "C" -> 12
           [] c = "D" -> 13 [] c = "E" -> 14 [] c = "F" -> 15
           [] OTHER -> -1

\* hex::decode: an odd length or a character that is no hex digit is an error.
hex_decode(s) ==
    IF Len(s) % 2 = 1 THEN [ok |-> FALSE, bytes |-> << >>]
    ELSE IF \E i \in 1..Len(s) : HexVal(s[i]) < 0 THEN [ok |-> FALSE, bytes |-> << >>]
    ELSE [ok |-> TRUE,
          bytes |-> [i \in 1..(Len(s) \div 2) |->
                        16 * HexVal(s[2 * i - 1]) + HexVal(s[2 * i])]]

\* char::is_whitespace, and the class \s of the regex crate, on the model's characters.
is_whitespace(c) == c \in {" ", "\t", "\n", "\r"}

\* The class \d on the model's characters.
is_digit(c) == c \in {"0", "1", "2", "3", "4", "5", "6", "7", "8", "9"}

UpperCase == << "A", "B", "C", "D", "E", "F", "G", "H", "I", "J", "K", "L", "M",
                "N", "O", "P", "Q", "R", "S", "T", "U", "V", "W", "X", "Y", "Z" >>
LowerCase == << "a", "b", "c", "d", "e", "f", "g", "h", "i", "j", "k", "l", "m",
                "n", "o", "p", "q", "r", "s", "t", "u", "v", "w", "x", "y", "z" >>

ToLowerChar(c) ==
    IF \E k \in 1..26 : UpperCase[k] = c
    THEN LowerCase[CHOOSE k \in 1..26 : UpperCase[k] = c]
    ELSE c

\* str::to_lowercase
to_lowercase(s) == [i \in 1..Len(s) |-> ToLowerChar(s[i])]

\* str::starts_with
starts_with(s, p) == Len(p) <= Len(s) /\ SubSeq(s, 1, Len(p)) = p

\* The literal w stands in s at position i.
LitAt(s, w, i) ==
    /\ i >= 1
    /\ i + Len(w) - 1 <= Len(s)
    /\ \A k \in 1..Len(w) : s[i + k - 1] = w[k]

\* Drop the characters of s before position i.
From(s, i) == SubSeq(s, i, Len(s))

\* str::trim_start_matches(pat): the prefix pat is removed as often as it stands there.
RECURSIVE trim_start_matches(_, _)
trim_start_matches(s, pat) ==
    IF Len(pat) > 0 /\ starts_with(s, pat)
    THEN trim_start_matches(From(s, Len(pat) + 1), pat)
    ELSE s

\* str::trim: leading and trailing whitespace removed.
trim(s) ==
    LET keep == {i \in 1..Len(s) : ~is_whitespace(s[i])}
    IN  IF keep = {} THEN << >>
        ELSE SubSeq(s, CHOOSE i \in keep : \A j \in keep : i <= j,
                       CHOOSE i \in keep : \A j \in keep : j <= i)

\* The position of the first c in s, 0 when there is none.
IndexOf(s, c) ==
    IF \E i \in 1..Len(s) : s[i] = c
    THEN CHOOSE i \in 1..Len(s) : s[i] = c /\ \A j \in 1..(i - 1) : s[j] # c
    ELSE 0

\* str::split(c): the pieces between the separators, empty pieces included.
RECURSIVE split(_, _)
split(s, c) ==
    LET k == IndexOf(s, c)
    IN  IF k = 0 THEN << s >>
        ELSE << SubSeq(s, 1, k - 1) >> \o split(From(s, k + 1), c)

\* str::lines: lines end at LF or CR LF; the terminator is not part of the line, a
\* last line needs none, and text ending in a terminator has no empty last line.
RECURSIVE lines(_)
lines(s) ==
    LET k == IndexOf(s, "\n")
        strip(l) == IF Len(l) > 0 /\ l[Len(l)] = "\r" THEN SubSeq(l, 1, Len(l) - 1) ELSE l
    IN  IF Len(s) = 0 THEN << >>
        ELSE IF k = 0 THEN << s >>
        ELSE << strip(SubSeq(s, 1, k - 1)) >> \o lines(From(s, k + 1))

(***************************************************************************)
(* The two regular expressions of the verifier                             *)
(*                                                                         *)
(* A regex is run as its automaton: from a set P of positions reached so   *)
(* far (a position is the index of the next character to read), each       *)
(* operator gives the positions reached after one more piece of the        *)
(* pattern. The regex crate searches: a match may start anywhere.          *)
(***************************************************************************)

\* Every position of s, the one past its end included.
Positions(s) == 1..(Len(s) + 1)

\* After the literal w.
AfterLit(s, w, P) == {p + Len(w) : p \in {q \in P : LitAt(s, w, q)}}

\* The class [^/].
not_slash(c) == c # "/"

\* The character classes of the two patterns, by name.
in_class(class, c) ==
    CASE class = "whitespace" -> is_whitespace(c)
      [] class = "not_slash" -> not_slash(c)

\* After one or more characters of the class.
AfterPlus(s, class, P) ==
    {j \in Positions(s) : \E p \in P : p < j /\ \A k \in p..(j - 1) : in_class(class, s[k])}

\* After zero or more characters of the class.
AfterStar(s, class, P) == P \cup AfterPlus(s, class, P)

W_GET == << "G", "E", "T" >>
W_http == << "h", "t", "t", "p" >>
W_s == << "s" >>
W_scheme_sep == << ":", "/", "/" >>
W_users == << "/", "u", "s", "e", "r", "s", "/" >>
W_credit_score == << "/", "c", "r", "e", "d", "i", "t", "-", "s", "c", "o", "r", "e" >>
W_HTTP11 == << "H", "T", "T", "P", "/", "1", ".", "1" >>
W_value == << "\"", "v", "a", "l", "u", "e", "\"" >>
W_colon == << ":" >>
W_host == << "h", "o", "s", "t", ":" >>

\* Where a match of GET\s+(?:https?://[^/]+)?(/users/[^/]+/credit-score)\s+HTTP/1\.1
\* that starts at a position of P can end.
path_regex_ends(s, P) ==
    LET get == AfterPlus(s, "whitespace", AfterLit(s, W_GET, P))
        http == AfterLit(s, W_http, get)
        sep == AfterLit(s, W_scheme_sep, http \cup AfterLit(s, W_s, http))
        authority == AfterPlus(s, "not_slash", sep)
        users == AfterLit(s, W_users, get \cup authority)
        path == AfterLit(s, W_credit_score, AfterPlus(s, "not_slash", users))
    IN  AfterLit(s, W_HTTP11, AfterPlus(s, "whitespace", path))

\* path_regex.captures(request_line).and_then(|cap| cap.get(1)) is Some: the
\* pattern matches somewhere in the line (group 1 is part of every match).
path_regex_captures(request_line) ==
    path_regex_ends(request_line, Positions(request_line)) # {}

\* Where the digits start in a match of "value"\s*:\s*(\d+) that starts at i
\* (at most one position: the whitespace before the digits is taken whole).
score_digits_from(s, i) ==
    LET name == AfterLit(s, W_value, {i})
        colon == AfterLit(s, W_colon, AfterStar(s, "whitespace", name))
    IN  {d \in AfterStar(s, "whitespace", colon) : d <= Len(s) /\ is_digit(s[d])}

\* score_regex.captures(recv): the leftmost match of "value"\s*:\s*(\d+),
\* its digits taken greedily. << >> when nothing matches, else
\* << first, last >>, the positions of the digits of group 1.
score_regex_match(s) ==
    LET starts == {i \in 1..Len(s) : score_digits_from(s, i) # {}}
    IN  IF starts = {} THEN << >>
        ELSE LET i == CHOOSE x \in starts : \A y \in starts : x <= y
                 d == CHOOSE x \in score_digits_from(s, i) : TRUE
                 e == CHOOSE x \in d..Len(s) :
                         /\ \A k \in d..x : is_digit(s[k])
                         /\ (x = Len(s) \/ ~is_digit(s[x + 1]))
             IN  << d, e >>

\* A capture read as a number and written again: its leading zeros are lost.
score_as_number(s) ==
    LET m == score_regex_match(s)
        digits == SubSeq(s, m[1], m[2])
        nonzero == {k \in 1..Len(digits) : digits[k] # "0"}
    IN  IF m = << >> THEN << >>
        ELSE IF nonzero = {} THEN << << "0" >> >>
        ELSE << From(digits, CHOOSE k \in nonzero : \A j \in nonzero : k <= j) >>

\* .and_then(|cap| cap.get(1)).map(|m| m.as_str()): the text of group 1 as it
\* stands; << >> for None, << text >> for Some.
score_regex_captures(s) ==
    LET m == score_regex_match(s)
    IN  IF m = << >> THEN << >> ELSE << SubSeq(s, m[1], m[2]) >>

(***************************************************************************)
(* Configuration (config.rs). env is the process environment: each         *)
(* variable is << >> when unset and << value >> when set.                  *)
(***************************************************************************)

DefaultVersion == "0.1.0-alpha.10"

\* config::get_tlsn_core_version
get_tlsn_core_version(env) ==
    IF env.TLSN_VERIFIER_ACCEPTED_VERSION = << >>
    THEN DefaultVersion
    ELSE env.TLSN_VERIFIER_ACCEPTED_VERSION[1]

\* config::get_server_names: the comma-separated value, every entry trimmed,
\* the empty entries dropped.
get_server_names(env) ==
    LET raw == IF env.TLSN_VERIFIER_ACCEPTED_SERVER_NAMES = << >>
               THEN << >>
               ELSE env.TLSN_VERIFIER_ACCEPTED_SERVER_NAMES[1]
        pieces == split(raw, ",")
        trimmed == [i \in 1..Len(pieces) |-> trim(pieces[i])]
    IN  SelectSeq(trimmed, LAMBDA n : n # << >>)

\* A membership test that takes no account of letter case.
contains_ignoring_case(names, name) ==
    \E i \in 1..Len(names) : to_lowercase(names[i]) = to_lowercase(name)

\* Vec::contains: equality of strings, character by character.
contains(names, name) == \E i \in 1..Len(names) : names[i] = name

(***************************************************************************)
(* The connection time. A u64 is four 16-bit limbs, most significant       *)
(* first; an i64 is a sign and a magnitude in the same limbs.              *)
(***************************************************************************)

LimbBase == 65536

\* x <= y on limbs.
LimbsLeq(x, y) ==
    \/ x = y
    \/ \E i \in 1..4 : x[i] < y[i] /\ \A j \in 1..(i - 1) : x[j] = y[j]

\* 2^64 - t for 0 < t < 2^64: every limb complemented, then one added.
Neg64(t) ==
    LET c == [i \in 1..4 |-> (LimbBase - 1) - t[i]]
        s4 == c[4] + 1
        s3 == c[3] + (s4 \div LimbBase)
        s2 == c[2] + (s3 \div LimbBase)
        s1 == c[1] + (s2 \div LimbBase)
    IN  << s1 % LimbBase, s2 % LimbBase, s3 % LimbBase, s4 % LimbBase >>

\* `time as i64`: the same 64 bits read in two's complement, so a value of
\* 2^63 or more becomes the negative number time - 2^64.
as_i64(time) ==
    IF time[1] >= LimbBase \div 2
    THEN [neg |-> TRUE, mag |-> Neg64(time)]
    ELSE [neg |-> FALSE, mag |-> time]

\* The seconds of NaiveDateTime::MAX, 8210266876799 (+262142-12-31T23:59:59).
MaxTimestamp == << 0, 1911, 39434, 27519 >>

\* The seconds of NaiveDateTime::MIN, negated: 8334601228800 (-262143-01-01T00:00:00).
MinTimestampMagnitude == << 0, 1940, 36082, 4608 >>

\* NaiveDateTime::from_timestamp_opt(secs, 0): None outside the dates chrono holds.
from_timestamp_opt(secs) ==
    IF \/ secs.neg /\ LimbsLeq(secs.mag, MinTimestampMagnitude)
       \/ ~secs.neg /\ LimbsLeq(secs.mag, MaxTimestamp)
    THEN << secs >>
    ELSE << >>

(***************************************************************************)
(* The proof envelope and the presentation                                 *)
(***************************************************************************)

\* The transcript left as it is.
set_unauthed_skipped(t, b) == t

\* PartialTranscript::set_unauthed(b): every byte the proof does not
\* authenticate becomes b. A transcript is its two byte vectors and, for
\* each, the set of authenticated positions.
set_unauthed(t, b) ==
    [t EXCEPT
        !.sent = [i \in 1..Len(t.sent) |-> IF i \in t.sent_authed THEN t.sent[i] ELSE b],
        !.received = [i \in 1..Len(t.received) |->
                         IF i \in t.recv_authed THEN t.received[i] ELSE b]]

\* The first line a case-insensitive "host:" starts, << >> when there is none.
find_host_line(sent) ==
    LET ls == lines(sent)
        hits == {i \in 1..Len(ls) : starts_with(to_lowercase(ls[i]), W_host)}
    IN  IF hits = {} THEN << >>
        ELSE << ls[CHOOSE i \in hits : \A j \in hits : i <= j] >>

\* host_line.trim_start_matches("host:").trim()
host_value(host_line) == trim(trim_start_matches(host_line, W_host))

\* A version check that lets every version pass.
version_mismatch_skipped(version, expected) == FALSE

\* presentation_json.version != expected_version
version_mismatch(version, expected) == version # expected

\* A key check that lets every key pass.
key_is_empty_skipped(verifying_key) == FALSE

\* verifying_key.is_empty()
key_is_empty(verifying_key) == Len(verifying_key) = 0

\* pres_out.server_name.map(|sn| sn.to_string()).unwrap_or_else(|| "<no server_name>")
NoServerName == << "<", "n", "o", " ", "s", "e", "r", "v", "e", "r", "_", "n", "a", "m", "e", ">" >>

server_name_or_sentinel(server_name) ==
    IF server_name = << >> THEN NoServerName ELSE server_name[1]

\* An error after which the response is still searched for the score.
Err_then_score(message, steps) ==
    [ok |-> FALSE, message |-> message, steps |-> Append(steps, "score")]

Err(message, steps) == [ok |-> FALSE, message |-> message, steps |-> steps]

(***************************************************************************)
(* The presentations of the model. What tlsn_core does is outside this     *)
(* repository: a presentation is given by what the verifier reads from it, *)
(* its verifying key, whether Presentation::verify accepts it, and the     *)
(* output verify returns: the asserted server name, the connection time    *)
(* and the partial transcript. A byte the proof does not authenticate is   *)
(* 0 in the partial transcript, as tlsn_core leaves it.                    *)
(***************************************************************************)

CRLF == << "\r", "\n" >>

ReqLineGood ==
    << "G", "E", "T", " ", "/", "u", "s", "e", "r", "s", "/", "4", "2", "/", "c", "r", "e", "d",
       "i", "t", "-", "s", "c", "o", "r", "e", " ", "H", "T", "T", "P", "/", "1", ".", "1" >>
ReqLineAbsolute ==
    << "G", "E", "T", " ", "h", "t", "t", "p", "s", ":", "/", "/", "e", "x", "a", "m", "p", "l",
       "e", ".", "c", "o", "m", "/", "u", "s", "e", "r", "s", "/", "4", "2", "/", "c", "r", "e",
       "d", "i", "t", "-", "s", "c", "o", "r", "e", " ", "H", "T", "T", "P", "/", "1", ".", "1" >>
ReqLineEmbedded ==
    << "P", "O", "S", "T", " ", "/", "x", "?", "q", "=", "G", "E", "T", " ", "/", "u", "s", "e",
       "r", "s", "/", "4", "2", "/", "c", "r", "e", "d", "i", "t", "-", "s", "c", "o", "r", "e",
       " ", "H", "T", "T", "P", "/", "1", ".", "1" >>
ReqLineTrailing ==
    << "G", "E", "T", " ", "/", "u", "s", "e", "r", "s", "/", "4", "2", "/", "c", "r", "e", "d",
       "i", "t", "-", "s", "c", "o", "r", "e", " ", "H", "T", "T", "P", "/", "1", ".", "1", " ",
       "j", "u", "n", "k" >>
ReqLineProfile ==
    << "G", "E", "T", " ", "/", "u", "s", "e", "r", "s", "/", "4", "2", "/", "p", "r", "o", "f",
       "i", "l", "e", " ", "H", "T", "T", "P", "/", "1", ".", "1" >>
ReqLineEmptyId ==
    << "G", "E", "T", " ", "/", "u", "s", "e", "r", "s", "/", "/", "c", "r", "e", "d", "i", "t",
       "-", "s", "c", "o", "r", "e", " ", "H", "T", "T", "P", "/", "1", ".", "1" >>
ReqLinePost ==
    << "P", "O", "S", "T", " ", "/", "u", "s", "e", "r", "s", "/", "4", "2", "/", "c", "r", "e",
       "d", "i", "t", "-", "s", "c", "o", "r", "e", " ", "H", "T", "T", "P", "/", "1", ".", "1" >>

NameExample == << "e", "x", "a", "m", "p", "l", "e", ".", "c", "o", "m" >>
NameExampleCapital == << "E", "x", "a", "m", "p", "l", "e", ".", "c", "o", "m" >>
NameOther == << "e", "v", "i", "l", ".", "o", "r", "g" >>

HostLower == << "h", "o", "s", "t", ":" >>
HostCapital == << "H", "o", "s", "t", ":" >>
HostUpper == << "H", "O", "S", "T", ":" >>
HostTwice == << "h", "o", "s", "t", ":", "h", "o", "s", "t", ":" >>
Cookie == << "C", "o", "o", "k", "i", "e", ":", " ", "s", "i", "d", "=", "1" >>

RecvHead == << "H", "T", "T", "P", "/", "1", ".", "1", " ", "2", "0", "0", " ", "O", "K" >>
Body750 == << "{", "\"", "v", "a", "l", "u", "e", "\"", ":", " ", "7", "5", "0", "}" >>
BodyTwo == << "{", "\"", "v", "a", "l", "u", "e", "\"", ":", "0", "0", "7", ",", "\"", "v", "a", "l", "u",
       "e", "\"", ":", " ", "9", "}" >>
BodyQuoted == << "{", "\"", "v", "a", "l", "u", "e", "\"", ":", " ", "\"", "7", "5", "0", "\"", "}" >>
BodyScore == << "{", "\"", "s", "c", "o", "r", "e", "\"", ":", " ", "7", "5", "0", "}" >>
BodySpaced == << "{", "\"", "v", "a", "l", "u", "e", "\"", " ", ":", " ", "1", "2", "a", "}" >>

\* A request: the request line, the header lines, the empty line.
Request(request_line, headers) ==
    LET RECURSIVE join(_)
        join(hs) == IF hs = << >> THEN << >> ELSE hs[1] \o CRLF \o join(Tail(hs))
    IN  request_line \o CRLF \o join(headers) \o CRLF

HostHeader(name_part, value) == name_part \o << " " >> \o value

Response(body) == RecvHead \o CRLF \o CRLF \o body

\* The partial transcript of the texts sent and received, with the positions
\* sent_hidden and recv_hidden not authenticated.
Transcript(sent, sent_hidden, received, recv_hidden) ==
    [sent |-> [i \in 1..Len(sent) |-> IF i \in sent_hidden THEN 0 ELSE Ord(sent[i])],
     sent_authed |-> (1..Len(sent)) \ sent_hidden,
     received |-> [i \in 1..Len(received) |->
                      IF i \in recv_hidden THEN 0 ELSE Ord(received[i])],
     recv_authed |-> (1..Len(received)) \ recv_hidden]

\* The positions of the piece that follows the text before.
Span(before, piece) == (Len(before) + 1)..(Len(before) + Len(piece))

\* 1700000000, 14 November 2023.
TimeNow == << 0, 0, 25939, 61696 >>

Key == << 4, 171 >>

Presentation(verifying_key, verify_ok, server_name, time, transcript) ==
    [verifying_key |-> verifying_key,
     verify_ok |-> verify_ok,
     output |-> [server_name |-> server_name, time |-> time, transcript |-> transcript]]

\* An accepted proof of server name, at time TimeNow, with the transcript.
Proof(name, sent, received) ==
    Presentation(Key, TRUE, << name >>, TimeNow, << Transcript(sent, {}, received, {}) >>)

SentGood == Request(ReqLineGood, << HostHeader(HostLower, NameExample) >>)
RecvGood == Response(Body750)

\* An accepted proof of example.com whose connection time is time.
ProofAt(time) ==
    Presentation(Key, TRUE, << NameExample >>, time,
                 << Transcript(SentGood, {}, RecvGood, {}) >>)

Presentations ==
    << \* 1: the plain case.
       Proof(NameExample, SentGood, RecvGood),
       \* 2..4: the Host header name in other capitalisations, and twice.
       Proof(NameExample, Request(ReqLineGood, << HostHeader(HostCapital, NameExample) >>),
             RecvGood),
       Proof(NameExample, Request(ReqLineGood, << HostHeader(HostUpper, NameExample) >>),
             RecvGood),
       Proof(NameExample, Request(ReqLineGood, << HostTwice \o NameExample >>), RecvGood),
       \* 5..6: no Host header; a Host header of another server.
       Proof(NameExample, Request(ReqLineGood, << Cookie >>), RecvGood),
       Proof(NameExample, Request(ReqLineGood, << HostHeader(HostLower, NameOther) >>),
             RecvGood),
       \* 7..9: other server names, and none.
       Proof(NameExampleCapital,
             Request(ReqLineGood, << HostHeader(HostLower, NameExampleCapital) >>), RecvGood),
       Proof(NameOther, Request(ReqLineGood, << HostHeader(HostLower, NameOther) >>),
             RecvGood),
       Presentation(Key, TRUE, << >>, TimeNow,
                    << Transcript(Request(ReqLineGood,
                                          << HostHeader(HostLower, NoServerName) >>), {},
                                  RecvGood, {}) >>),
       \* 10..16: request lines.
       Proof(NameExample,
             Request(ReqLineAbsolute, << HostHeader(HostLower, NameExample) >>), RecvGood),
       Proof(NameExample,
             Request(ReqLineEmbedded, << HostHeader(HostLower, NameExample) >>), RecvGood),
       Proof(NameExample,
             Request(ReqLineTrailing, << HostHeader(HostLower, NameExample) >>), RecvGood),
       Proof(NameExample,
             Request(ReqLineProfile, << HostHeader(HostLower, NameExample) >>), RecvGood),
       Proof(NameExample,
             Request(ReqLineEmptyId, << HostHeader(HostLower, NameExample) >>), RecvGood),
       Proof(NameExample,
             Request(ReqLinePost, << HostHeader(HostLower, NameExample) >>), RecvGood),
       Proof(NameExample,
             Request(HostHeader(HostLower, NameExample), << ReqLineGood >>), RecvGood),
       \* 17..21: responses.
       Proof(NameExample, SentGood, Response(BodyTwo)),
       Proof(NameExample, SentGood, Response(BodyQuoted)),
       Proof(NameExample, SentGood, Response(BodyScore)),
       Proof(NameExample, SentGood, Response(BodySpaced)),
       Proof(NameExample, SentGood, << >>),
       \* 22..25: bytes that are not authenticated: a cookie; the Host header;
       \* the only score; the first of two scores.
       Presentation(Key, TRUE, << NameExample >>, TimeNow,
           << Transcript(Request(ReqLineGood,
                                 << Cookie, HostHeader(HostLower, NameExample) >>),
                         Span(ReqLineGood \o CRLF, Cookie),
                         Response(Body750), Span(RecvHead, CRLF)) >>),
       Presentation(Key, TRUE, << NameExample >>, TimeNow,
           << Transcript(SentGood,
                         Span(ReqLineGood \o CRLF, HostHeader(HostLower, NameExample)),
                         RecvGood, {}) >>),
       Presentation(Key, TRUE, << NameExample >>, TimeNow,
           << Transcript(SentGood, {},
                         RecvGood, Span(RecvHead \o CRLF \o CRLF, Body750)) >>),
       Presentation(Key, TRUE, << NameExample >>, TimeNow,
           << Transcript(SentGood, {},
                         Response(BodyTwo), (Len(Response(<< >>)) + 10)..(Len(Response(<< >>)) + 12)) >>),
       \* 26: a byte that is no UTF-8 in the response.
       Presentation(Key, TRUE, << NameExample >>, TimeNow,
           << [Transcript(SentGood, {}, RecvGood, {}) EXCEPT
                  !.received = << 255 >> \o @,
                  !.recv_authed = 1..(Len(RecvGood) + 1)] >>),
       \* 27..29: the verifying key and the verification.
       Presentation(<< >>, TRUE, << NameExample >>, TimeNow,
                    << Transcript(SentGood, {}, RecvGood, {}) >>),
       Presentation(Key, FALSE, << NameExample >>, TimeNow,
                    << Transcript(SentGood, {}, RecvGood, {}) >>),
       Presentation(<< >>, FALSE, << NameExample >>, TimeNow,
                    << Transcript(SentGood, {}, RecvGood, {}) >>),
       \* 30: no transcript.
       Presentation(Key, TRUE, << NameExample >>, TimeNow, << >>),
       \* 31..36: connection times 0, 2^63 - 1, 2^63, 2^64 - 2^50, 2^64 - 1,
       \* and one second past the last date.
       ProofAt(<< 0, 0, 0, 0 >>),
       ProofAt(<< 32767, 65535, 65535, 65535 >>),
       ProofAt(<< 32768, 0, 0, 0 >>),
       ProofAt(<< 65532, 0, 0, 0 >>),
       ProofAt(<< 65535, 65535, 65535, 65535 >>),
       ProofAt(<< 0, 1911, 39434, 27520 >>),
       \* 37..38: no server name, with the sentinel after a Host name written
       \* twice, and with the Host of a server.
       Presentation(Key, TRUE, << >>, TimeNow,
                    << Transcript(Request(ReqLineGood, << HostTwice \o NoServerName >>), {},
                                  RecvGood, {}) >>),
       Presentation(Key, TRUE, << >>, TimeNow,
                    << Transcript(SentGood, {}, RecvGood, {}) >>) >>

\* bincode::deserialize: the bytes of a presentation are its number.
bincode_deserialize(raw) ==
    IF Len(raw) = 1 /\ raw[1] \in 1..Len(Presentations)
    THEN << Presentations[raw[1]] >>
    ELSE << >>

\* PresentationJSON::from_json_str. A request body is modelled by what serde
\* makes of it: malformed (no JSON, or a field missing) or an envelope with a
\* version and a payload.
from_json_str(json) ==
    IF json.wellformed
    THEN [ok |-> TRUE, version |-> json.version, data |-> json.data]
    ELSE [ok |-> FALSE]

\* PresentationJSON::to_presentation: the payload without its whitespace is
\* hex-decoded and the bytes deserialised.
to_presentation(data) ==
    LET tmp_data == SelectSeq(data, LAMBDA c : ~is_whitespace(c))
        raw == hex_decode(tmp_data)
    IN  IF ~raw.ok THEN [ok |-> FALSE]
        ELSE IF bincode_deserialize(raw.bytes) = << >> THEN [ok |-> FALSE]
        ELSE [ok |-> TRUE, presentation |-> bincode_deserialize(raw.bytes)[1]]

\* verifier::verify_proof. The result is Ok(VerificationResult) or
\* Err(VerificationError); steps lists, in order, the steps that ran.
verify_proof(json, env) ==
    LET presentation_json == from_json_str(json)
        s1 == << "from_json_str" >>
    IN
    IF ~presentation_json.ok THEN Err(<< "Invalid JSON format" >>, s1) ELSE
    LET expected_version == get_tlsn_core_version(env)
        s2 == Append(s1, "check_version")
    IN
    IF version_mismatch(presentation_json.version, expected_version)
    THEN Err(<< "Version mismatch", expected_version, presentation_json.version >>, s2) ELSE
    LET decoded == to_presentation(presentation_json.data)
        s3 == Append(s2, "to_presentation")
    IN
    IF ~decoded.ok THEN Err(<< "Invalid presentation encoding" >>, s3) ELSE
    LET presentation == decoded.presentation
        verifying_key == presentation.verifying_key
        s4 == Append(s3, "check_verifying_key")
    IN
    IF key_is_empty(verifying_key) THEN Err(<< "Verifying key is empty or missing" >>, s4) ELSE
    LET s5 == Append(s4, "verify")
    IN
    IF ~presentation.verify_ok THEN Err(<< "Presentation verification failed" >>, s5) ELSE
    LET pres_out == presentation.output
        server_name == server_name_or_sentinel(pres_out.server_name)
        accepted_server_names == get_server_names(env)
        s6 == Append(s5, "check_server_name")
    IN
    IF ~contains(accepted_server_names, server_name)
    THEN Err(<< "Server name is not in the accepted list", server_name >>, s6) ELSE
    LET secs == as_i64(pres_out.time)
        naive == from_timestamp_opt(secs)
        s7 == Append(s6, "from_timestamp_opt")
    IN
    IF naive = << >> THEN Err(<< "Invalid or missing timestamp" >>, s7) ELSE
    LET dt == naive[1]
        s8 == Append(s7, "transcript")
    IN
    IF pres_out.transcript = << >>
    THEN Err(<< "Missing transcript in presentation output" >>, s8) ELSE
    LET transcript == set_unauthed(pres_out.transcript[1], Ord("X"))
        sent_bytes == transcript.sent
        recv_bytes == transcript.received
        sent == from_utf8_lossy(sent_bytes)
        recv == from_utf8_lossy(recv_bytes)
        host_line == find_host_line(sent)
        s9 == Append(Append(s8, "set_unauthed"), "host")
    IN
    IF host_line = << >> THEN Err(<< "Missing 'Host' header in sent transcript" >>, s9) ELSE
    LET host == host_value(host_line[1])
    IN
    IF host # server_name
    THEN Err(<< "Host header does not match server name", host, server_name >>, s9) ELSE
    LET sent_lines == lines(sent)
        s10 == Append(s9, "request_line")
    IN
    IF sent_lines = << >> THEN Err(<< "Missing request line in sent transcript" >>, s10) ELSE
    IF ~path_regex_captures(sent_lines[1])
    THEN Err(<< "Request path is missing or invalid" >>, s10) ELSE
    LET credit_score == score_regex_captures(recv)
        s11 == Append(s10, "score")
    IN
    IF credit_score = << >>
    THEN Err(<< "Credit score value is missing from response" >>, s11) ELSE
    [ok |-> TRUE,
     value |-> [is_valid |-> TRUE,
                server_name |-> server_name,
                score |-> credit_score[1],
                verifying_key |-> hex_encode(verifying_key),
                sent_hex_encoded |-> hex_encode(sent_bytes),
                sent_readable |-> sent,
                recv_hex_encoded |-> hex_encode(recv_bytes),
                recv_readable |-> recv,
                time |-> dt],
     steps |-> s11]

(***************************************************************************)
(* Key material and attestation (key_manager.rs, attestation.rs)           *)
(***************************************************************************)

\* What the hardware service answers to one request: the connection fails,
\* or a response arrives with a status and a body; body is << >> when it
\* does not parse as the response type, << response >> when it does.
NoConnection == [conn |-> FALSE, status |-> 0, body |-> << >>]
HttpResponse(status, body) == [conn |-> TRUE, status |-> status, body |-> body]

\* A quote, hex-encoded.
QuoteHex == << "0", "a", "1", "f" >>

GetQuoteResponse == [quote |-> QuoteHex, event_log |-> "[]"]

QuoteResponses ==
    { NoConnection,
      HttpResponse(200, << GetQuoteResponse >>), HttpResponse(200, << >>),
      HttpResponse(500, << GetQuoteResponse >>), HttpResponse(500, << >>) }

\* The keys the service derives: one that parses and one that does not.
GetKeyResponses ==
    { [key |-> "derived key", certificate_chain |-> << "app cert", "ca cert" >>],
      [key |-> "not a key", certificate_chain |-> << "app cert", "ca cert" >>] }

DeriveKeyResponses ==
    { NoConnection, HttpResponse(200, << >>), HttpResponse(500, << >>) }
        \cup {HttpResponse(200, << r >>) : r \in GetKeyResponses}
        \cup {HttpResponse(500, << r >>) : r \in GetKeyResponses}

\* The keys SigningKey::random can return.
RandomKeys == {"random key 1", "random key 2"}

\* SigningKey::from_pkcs8_pem (from_slice of the decoded hex in the dstack
\* variant): << >> when the text is no key.
parse_signing_key(text) == IF text = "derived key" THEN << "derived key" >> ELSE << >>

\* KeyMaterial::public_key_bytes: the uncompressed point 04 || X || Y of the key.
public_key_bytes(signing_key) ==
    CASE signing_key = "derived key" -> << 4, 16, 17 >>
      [] signing_key = "random key 1" -> << 4, 32, 33 >>
      [] signing_key = "random key 2" -> << 4, 48, 49 >>

\* KeyMaterial::encode_verify_key
encode_verify_key(key_material) == hex_encode(public_key_bytes(key_material.signing_key))

\* KeyMaterial::sign_message. The signature is given by what it binds: the
\* key that made it and the message it was made over.
sign(key_material, message) == [signer |-> key_material.signing_key, message |-> message]

\* attestation::encode_message_hex
encode_message_hex(message) == hex_encode(AsBytes(message))

\* attestation::sign_message
sign_message(key_material, message_hex) == sign(key_material, AsBytes(message_hex))

\* KeyMaterial::new_random with the key the generator returned.
new_random(signing_key) ==
    [signing_key |-> signing_key, source |-> "Random", certificate_chain |-> << >>]

\* A fallback that keeps the certificate chain of the response.
from_get_key_response_keeping_chain(response, random) ==
    LET signing_key == parse_signing_key(response.key)
    IN  [signing_key |-> IF signing_key = << >> THEN random ELSE signing_key[1],
         source |-> IF signing_key = << >> THEN "Random" ELSE "Tappd",
         certificate_chain |-> << response.certificate_chain >>]

\* KeyMaterial::from_get_key_response; random is the key new_random draws
\* when the returned key does not parse.
from_get_key_response(response, random) ==
    LET signing_key == parse_signing_key(response.key)
    IN  IF signing_key = << >> THEN new_random(random)
        ELSE [signing_key |-> signing_key[1],
              source |-> "Tappd",
              certificate_chain |-> << response.certificate_chain >>]

\* derive_key_from_tappd, from the answer of the service on: Ok(GetKeyResponse)
\* is << response >>, an error << >>. The status of the answer is not read.
derive_key_from_tappd(answer) ==
    IF ~answer.conn THEN << >> ELSE answer.body

\* DStackClient::process_response: only a 200 whose body parses is Ok.
process_response(answer) ==
    IF answer.status = 200 THEN answer.body ELSE << >>

\* DStackClient::derive_key and generate_quote, from the answer on.
dstack_call(answer) ==
    IF ~answer.conn THEN << >> ELSE process_response(answer)

\* read_attestation_report of the tappd variant, from the answer on: the body
\* is parsed whatever the status.
read_attestation_report_tappd(answer) ==
    IF ~answer.conn THEN [ok |-> FALSE, message |-> "Failed to send request"]
    ELSE IF answer.body = << >>
    THEN [ok |-> FALSE, message |-> "Failed to parse GetQuoteResponse"]
    ELSE [ok |-> TRUE, report |-> answer.body[1]]

\* read_attestation_report of the dstack variant, from the answer on.
read_attestation_report_dstack(answer) ==
    IF dstack_call(answer) = << >>
    THEN [ok |-> FALSE, message |-> "Failed to generate quote"]
    ELSE [ok |-> TRUE, report |-> dstack_call(answer)[1]]

\* An attestation signed with a key made for it.
signed_attestation_fresh_key(key_material, report, with_chain) ==
    LET fresh == new_random("random key 2")
    IN  [quote |-> report.quote,
         signature_hex_encoded |-> sign_message(fresh, encode_message_hex(report.quote)),
         verifying_key_hex_encoded |-> encode_verify_key(fresh),
         verifying_key_certificate_chain |-> << >>]

\* get_attestation_report_with_signature, from the report on (both variants;
\* the dstack variant's SignedAttestation has no certificate chain).
signed_attestation(key_material, report, with_chain) ==
    LET report_data == report.quote
        report_data_hex == encode_message_hex(report_data)
        signature == sign_message(key_material, report_data_hex)
    IN  [quote |-> report_data,
         signature_hex_encoded |-> signature,
         verifying_key_hex_encoded |-> encode_verify_key(key_material),
         verifying_key_certificate_chain |->
            IF with_chain THEN key_material.certificate_chain ELSE << >>]

\* Sha512::digest: the digest is given by what it is the digest of.
Sha512(bytes) == [sha512_of |-> bytes]

\* KeyMaterial::report_data_from_key: "0x" and the hex of the digest of the
\* uncompressed public key.
report_data_from_key(key_material) ==
    [prefix |-> << "0", "x" >>,
     hex_of |-> Sha512(public_key_bytes(key_material.signing_key))]

\* The quote request read_attestation_report sends to the tappd socket.
\* hash_algorithm is << >> when the body has no such field.
tappd_quote_request(key_material) ==
    [uri |-> "/prpc/Tappd.TdxQuote?json",
     report_data |-> report_data_from_key(key_material),
     hash_algorithm |-> << "raw" >>]

\* The quote request DStackClient::generate_quote sends.
dstack_quote_request(key_material) ==
    [uri |-> "/dstack/tdx-quote",
     report_data |-> report_data_from_key(key_material),
     hash_algorithm |-> << >>]

\* The quote request of the variant.
quote_request(v, key_material) ==
    IF v = "tappd" THEN tappd_quote_request(key_material)
    ELSE dstack_quote_request(key_material)

\* A report read with a second request, which the service answers, after a
\* first that got no connection.
read_attestation_report_retried(v, answer) ==
    IF ~answer.conn THEN [ok |-> TRUE, report |-> GetQuoteResponse]
    ELSE IF v = "tappd" THEN read_attestation_report_tappd(answer)
    ELSE read_attestation_report_dstack(answer)

\* read_attestation_report of the variant, from the answer on.
read_attestation_report(v, answer) ==
    IF v = "tappd" THEN read_attestation_report_tappd(answer)
    ELSE read_attestation_report_dstack(answer)

\* get_attestation_report_with_signature of the variant, from the answer to
\* the quote request on.
get_attestation_report_with_signature(v, key_material, answer) ==
    LET report == read_attestation_report(v, answer)
    IN  IF ~report.ok THEN report
        ELSE [ok |-> TRUE,
              value |-> signed_attestation(key_material, report.report, v = "tappd")]

\* A response that gives up the verification result when the attestation failed.
verification_response_dropped(verification_result, attestation) ==
    [verification |-> IF attestation.ok THEN verification_result
                      ELSE Err(<< "Attestation failed" >>, << >>),
     attestation |-> attestation]

\* The VerificationResponse verify_proof_route builds.
verification_response(verification_result, attestation) ==
    [verification |-> verification_result, attestation |-> attestation]

\* A status that looks at the verification first: 400 whenever it failed.
response_status_verification_first(response) ==
    CASE ~response.verification.ok -> 400
      [] response.attestation.ok -> 200
      [] OTHER -> 500

\* The status verify_proof_route answers with.
response_status(response) ==
    CASE response.verification.ok /\ response.attestation.ok -> 200
      [] ~response.verification.ok /\ response.attestation.ok -> 400
      [] OTHER -> 500

(***************************************************************************)
(* The process                                                             *)
(***************************************************************************)

VersionAlpha10 == "0.1.0-alpha.10"
VersionAlpha7 == "0.1.0-alpha.7"

NamesExample ==
    << " ", "e", "x", "a", "m", "p", "l", "e", ".", "c", "o", "m", " ", ",", " ", ",", "<", "n",
       "o", " ", "s", "e", "r", "v", "e", "r", "_", "n", "a", "m", "e", ">" >>
NamesOthers ==
    << "E", "x", "a", "m", "p", "l", "e", ".", "c", "o", "m", ",", "e", "v", "i", "l", ".", "o",
       "r", "g" >>

\* The secret the process is configured with.
ApiKey == << "k", "1" >>

\* The environments the process is started in.
Envs ==
    [TLSN_VERIFIER_ACCEPTED_VERSION : {<< >>, << VersionAlpha7 >>},
     TLSN_VERIFIER_ACCEPTED_SERVER_NAMES : {<< >>, << NamesExample >>, << NamesOthers >>},
     TLSN_VERIFIER_API_KEY : {<< ApiKey >>}]

Envelope(version, data) == [wellformed |-> TRUE, version |-> version, data |-> data]

\* The request bodies: no envelope; every presentation under the default
\* version; payloads that do not decode; another version with a payload that
\* decodes and with one that does not.
Bodies ==
    {[wellformed |-> FALSE, version |-> "", data |-> << >>]}
        \cup {Envelope(VersionAlpha10, hex_encode(<< k >>)) : k \in 1..Len(Presentations)}
        \cup {Envelope(VersionAlpha10, d) :
                d \in {<< "0" >>, << "0", "g" >>, << "f", "f" >>, << "0", " ", "1", "\n" >>}}
        \cup {Envelope(VersionAlpha7, d) : d \in {<< "0", "1" >>, << "z", "z" >>}}

VARIABLES
    variant,        \* which of the two services runs: "tappd" or "dstack"
    env,            \* the environment of the process
    main_pc,        \* where main is
    key_material,   \* KEY_MATERIAL (INSTANCE in the dstack variant): << >> or << key >>
    h_pc,           \* where the verify_proof_route handler is
    h_body,         \* the body of the request it handles
    h_verification, \* << >>, or << the result of verify_proof >>
    h_response,     \* << >>, or << the VerificationResponse it answers with >>
    h_status,       \* the status of its response, 0 before
    h_attest_calls, \* calls of get_attestation_report_with_signature for the request
    h_quote_requests, \* quote requests sent to the service for the request
    h_quote_request, \* << >>, or << the quote request it sent >>
    h_quote_answer, \* << >>, or << what the service answered to it >>
    init_completed, \* INIT.is_completed() of the dstack variant
    stores,         \* how many times the singleton has been written
    t_pc,           \* where each task calling the initialisation is
    t_late,         \* whether the key material was stored when the task called
    t_requests,     \* derive-key requests each task has sent
    t_result,       \* << >>, or << what the initialisation returned to the task >>
    t_seen,         \* << >>, or << the key material the task read after its call >>
    t_stored_answer, \* << >>, or << the answer from which a task made the stored key >>
    a_pc,           \* where the attestation_route handler is
    a_quote_requests, \* quote requests sent for its request
    a_quote_request, \* << >>, or << the quote request it sent >>
    a_quote_answer, \* << >>, or << what the service answered to it >>
    a_result,       \* << >>, or << the attestation it answers with >>
    a_status,       \* the status of its response, 0 before
    hc_pc,          \* where the health_check handler is
    hc_answer,      \* << >>, or << what the service answers to a probe at the time >>
    hc_status,      \* the status of its response, 0 before
    g_pc,           \* where the caller of KeyMaterial::get_instance_async is
    g_in_flight,    \* whether an initialisation was running when it called
    g_seen,         \* << >>, or << the key material get_instance_async returned >>
    mw              \* per route, the request the ApiKeyAuth middleware holds

handler_vars == << h_pc, h_body, h_verification, h_response, h_status,
                   h_attest_calls, h_quote_requests, h_quote_request, h_quote_answer >>

task_vars == << init_completed, stores, t_pc, t_late, t_requests, t_result, t_seen,
               t_stored_answer >>

attestation_vars == << a_pc, a_quote_requests, a_quote_request, a_quote_answer,
                       a_result, a_status >>

health_vars == << hc_pc, hc_answer, hc_status >>

waiter_vars == << g_pc, g_in_flight, g_seen >>

vars == << variant, env, main_pc, key_material, handler_vars, task_vars,
           attestation_vars, health_vars, waiter_vars, mw >>

\* The tasks that call the initialisation: main, and one other caller.
Tasks == {"main", "other"}

NoBody == [wellformed |-> FALSE, version |-> "", data |-> << >>]

\* The routes App::new() registers behind .wrap(ApiKeyAuth).
Routes == {"/health", "/verify-proof", "/attestation"}

\* The middleware holds no request for a route.
NoRequest == [pc |-> "idle", header |-> << >>, body |-> NoBody, status |-> 0]

Init ==
    /\ variant \in {"tappd", "dstack"}
    /\ env \in Envs
    /\ main_pc = "start"
    /\ key_material = << >>
    /\ h_pc = "idle"
    /\ h_body = NoBody
    /\ h_verification = << >>
    /\ h_response = << >>
    /\ h_status = 0
    /\ h_attest_calls = 0
    /\ h_quote_requests = 0
    /\ h_quote_request = << >>
    /\ h_quote_answer = << >>
    /\ init_completed = FALSE
    /\ stores = 0
    /\ t_pc = [t \in Tasks |-> "idle"]
    /\ t_late = [t \in Tasks |-> FALSE]
    /\ t_requests = [t \in Tasks |-> 0]
    /\ t_result = [t \in Tasks |-> << >>]
    /\ t_seen = [t \in Tasks |-> << >>]
    /\ a_pc = "idle"
    /\ a_quote_requests = 0
    /\ a_quote_request = << >>
    /\ a_quote_answer = << >>
    /\ a_result = << >>
    /\ a_status = 0
    /\ hc_pc = "idle"
    /\ hc_answer = << >>
    /\ hc_status = 0
    /\ t_stored_answer = << >>
    /\ g_pc = "idle"
    /\ g_in_flight = FALSE
    /\ g_seen = << >>
    /\ mw = [route \in Routes |-> NoRequest]

\* main up to the await of the derive-key request.
MainStart ==
    /\ main_pc = "start"
    /\ main_pc' = "await_derive_key"
    /\ UNCHANGED << variant, env, mw, waiter_vars, key_material >>
    /\ UNCHANGED << handler_vars, task_vars, attestation_vars, health_vars >>

\* init_key_material_from_tappd_socket from the answer of the service on, and
\* main up to the start of the server.
MainInitTappd(answer, random) ==
    /\ variant = "tappd"
    /\ main_pc = "await_derive_key"
    /\ LET key_response == derive_key_from_tappd(answer)
           km == IF key_response = << >> THEN new_random(random)
                 ELSE from_get_key_response(key_response[1], random)
       IN  IF key_material = << >>
           THEN key_material' = << km >> /\ main_pc' = "serving" /\ stores' = stores + 1
           ELSE key_material' = key_material /\ main_pc' = "failed" /\ stores' = stores
    /\ UNCHANGED << variant, env, mw, waiter_vars >>
    /\ UNCHANGED << init_completed, t_pc, t_late, t_requests, t_result, t_seen, t_stored_answer >>
    /\ UNCHANGED << handler_vars, attestation_vars, health_vars >>

\* KeyMaterial::init of the dstack variant from the answer on: new_instance
\* panics unless a key arrives that parses.
MainInitDstack(answer) ==
    /\ variant = "dstack"
    /\ main_pc = "await_derive_key"
    /\ LET key_response == dstack_call(answer)
           signing_key == IF key_response = << >> THEN << >>
                          ELSE parse_signing_key(key_response[1].key)
       IN  IF signing_key = << >>
           THEN /\ key_material' = key_material
                /\ main_pc' = "panicked"
                /\ UNCHANGED << init_completed, stores >>
           ELSE /\ key_material' = << [signing_key |-> signing_key[1],
                                       source |-> "Dstack",
                                       certificate_chain |-> << >>] >>
                /\ main_pc' = "serving"
                /\ init_completed' = TRUE
                /\ stores' = stores + 1
    /\ UNCHANGED << variant, env, mw, waiter_vars >>
    /\ UNCHANGED << t_pc, t_late, t_requests, t_result, t_seen, t_stored_answer >>
    /\ UNCHANGED << handler_vars, attestation_vars, health_vars >>

\* verify_proof_route up to the await of the quote request: the proof is
\* verified, then get_attestation_report_with_signature is called. Without
\* key material it returns an error at once in the tappd variant, and
\* KeyMaterial::get_instance panics in the dstack variant.
VerifyProofRoute(body) ==
    /\ main_pc = "serving"
    /\ h_pc = "idle"
    /\ h_body' = body
    /\ h_verification' = << verify_proof(body, env) >>
    /\ h_attest_calls' = 1
    /\ h_quote_answer' = << >>
    /\ IF key_material # << >>
       THEN /\ h_quote_requests' = 1
            /\ h_quote_request' = << quote_request(variant, key_material[1]) >>
            /\ h_response' = << >>
            /\ h_status' = 0
            /\ h_pc' = "await_quote"
       ELSE IF variant = "tappd"
       THEN /\ h_quote_requests' = 0
            /\ h_quote_request' = << >>
            /\ h_response' =
                  << verification_response(
                         h_verification'[1],
                         [ok |-> FALSE, message |-> "Key material not initialized"]) >>
            /\ h_status' = response_status(h_response'[1])
            /\ h_pc' = "done"
       ELSE /\ h_quote_requests' = 0
            /\ h_quote_request' = << >>
            /\ h_response' = << >>
            /\ h_status' = 0
            /\ h_pc' = "panicked"
    /\ UNCHANGED << variant, env, mw, waiter_vars, main_pc, key_material >>
    /\ UNCHANGED << task_vars, attestation_vars, health_vars >>

\* verify_proof_route from the answer to the quote request on: the quote is
\* signed, the response built and its status chosen.
QuoteReturns(answer) ==
    /\ h_pc = "await_quote"
    /\ LET attestation ==
               get_attestation_report_with_signature(variant, key_material[1], answer)
           response == verification_response(h_verification[1], attestation)
       IN  /\ h_response' = << response >>
           /\ h_status' = response_status(response)
    /\ h_pc' = "done"
    /\ h_quote_answer' = << answer >>
    /\ UNCHANGED << variant, env, mw, waiter_vars, main_pc, key_material >>
    /\ UNCHANGED << h_body, h_verification, h_attest_calls, h_quote_requests, h_quote_request >>
    /\ UNCHANGED << task_vars, attestation_vars, health_vars >>

\* The response is sent, and the handler is free for the next request.
Respond ==
    /\ h_pc = "done"
    /\ h_pc' = "idle"
    /\ h_body' = NoBody
    /\ h_verification' = << >>
    /\ h_response' = << >>
    /\ h_status' = 0
    /\ h_attest_calls' = 0
    /\ h_quote_requests' = 0
    /\ h_quote_request' = << >>
    /\ h_quote_answer' = << >>
    /\ UNCHANGED << variant, env, mw, waiter_vars, main_pc, key_material >>
    /\ UNCHANGED << task_vars, attestation_vars, health_vars >>

Next ==
    \/ MainStart
    \/ \E answer \in DeriveKeyResponses, random \in RandomKeys : MainInitTappd(answer, random)
    \/ \E answer \in DeriveKeyResponses : MainInitDstack(answer)
    \/ \E body \in Bodies : VerifyProofRoute(body)
    \/ \E answer \in QuoteResponses : QuoteReturns(answer)
    \/ Respond

Spec == Init /\ [][Next]_vars

(***************************************************************************)
(* The process with a second caller of the initialisation, and with the    *)
(* attestation and health routes                                           *)
(***************************************************************************)

\* The process runs: main has not exited with the initialisation's error,
\* and has not panicked.
Alive == main_pc \notin {"failed", "panicked"} /\ t_pc["main"] # "panicked"

\* init_key_material_from_tappd_socket from the answer on: the key material
\* to store.
tappd_key_material(answer, random) ==
    LET key_response == derive_key_from_tappd(answer)
    IN  IF key_response = << >> THEN new_random(random)
        ELSE from_get_key_response(key_response[1], random)

\* KeyMaterial::new_instance from the answer on: << >> where it panics,
\* else << the key material >>.
new_instance(answer) ==
    LET key_response == dstack_call(answer)
        signing_key == IF key_response = << >> THEN << >>
                       ELSE parse_signing_key(key_response[1].key)
    IN  IF signing_key = << >> THEN << >>
        ELSE << [signing_key |-> signing_key[1],
                 source |-> "Dstack",
                 certificate_chain |-> << >>] >>

\* A cell whose set replaces what it holds.
once_cell_set_overwriting(cell, value) == [ok |-> TRUE, cell |-> << value >>]

\* OnceCell::set: an empty cell takes the value; a full one keeps its own and
\* the call is an error.
once_cell_set(cell, value) ==
    IF cell = << >> THEN [ok |-> TRUE, cell |-> << value >>]
    ELSE [ok |-> FALSE, cell |-> cell]

\* A call_once that runs its closure whether or not INIT is completed.
call_once_again(completed, cell, value) == [ran |-> TRUE, cell |-> << value >>]

\* A call_once whose closure stores nothing.
call_once_storing_nothing(completed, cell, value) ==
    IF completed THEN [ran |-> FALSE, cell |-> cell]
    ELSE [ran |-> TRUE, cell |-> cell]

\* INIT.call_once(|| *INSTANCE.lock().unwrap() = Some(value)): the closure runs
\* unless INIT is completed; INIT is completed when the closure has returned.
call_once(completed, cell, value) ==
    IF completed THEN [ran |-> FALSE, cell |-> cell]
    ELSE [ran |-> TRUE, cell |-> << value >>]

\* The error of DStackClient::derive_key, from the answer on: the send error,
\* or the error of process_response, which carries the body of a 400, of a
\* 5xx and of any status it has no arm for.
derive_key_error(answer) ==
    CASE ~answer.conn -> [kind |-> "NetworkError", text |-> << >>]
      [] answer.conn /\ answer.status = 200 -> [kind |-> "ParseError", text |-> << >>]
      [] answer.conn /\ answer.status = 400 -> [kind |-> "BadRequest", text |-> answer.body]
      [] answer.conn /\ answer.status = 404 -> [kind |-> "NotFound", text |-> << >>]
      [] answer.conn /\ answer.status = 401 -> [kind |-> "Unauthorized", text |-> << >>]
      [] OTHER -> [kind |-> "ServerError", text |-> answer.body]

\* What KeyMaterial::new_instance panics with, from the answer on: the
\* message of its expect and the error it was called on.
new_instance_panic(answer) ==
    [message |-> "Failed to create signing key",
     cause |-> IF dstack_call(answer) = << >>
               THEN [message |-> "Failed to derive key", cause |-> derive_key_error(answer)]
               ELSE [message |-> "Failed to decode key", cause |-> << >>]]

\* A task calls the initialisation, up to the await of the derive-key
\* request. init_key_material_from_tappd_socket sends the request at once;
\* KeyMaterial::init returns when INIT is completed and sends it otherwise.
InitCall(t) ==
    /\ Alive
    /\ t_pc[t] = "idle"
    /\ t_late' = [t_late EXCEPT ![t] = key_material # << >>]
    /\ IF variant = "dstack" /\ init_completed
       THEN /\ t_pc' = [t_pc EXCEPT ![t] = "returned"]
            /\ t_result' = [t_result EXCEPT ![t] = << [ok |-> TRUE] >>]
            /\ t_requests' = t_requests
       ELSE /\ t_pc' = [t_pc EXCEPT ![t] = "await_derive_key"]
            /\ t_result' = t_result
            /\ t_requests' = [t_requests EXCEPT ![t] = @ + 1]
    /\ UNCHANGED << variant, env, mw, waiter_vars, main_pc, key_material, init_completed,
                    stores, t_seen, t_stored_answer >>
    /\ UNCHANGED << handler_vars, attestation_vars, health_vars >>

\* The initialisation from the answer to the derive-key request on.
\* init_key_material_from_tappd_socket runs to its return: KEY_MATERIAL.set
\* stores into an empty cell and is an error on a full one.
\* KeyMaterial::init runs to the end of the closure of INIT.call_once:
\* new_instance panics unless a key arrives that parses; call_once waits
\* while another caller runs its closure, returns at once when INIT is
\* completed, and runs the closure otherwise.
InitDerived(t, answer, random) ==
    /\ Alive
    /\ t_pc[t] = "await_derive_key"
    /\ IF variant = "tappd"
       THEN /\ LET set == once_cell_set(key_material, tappd_key_material(answer, random))
               IN  /\ key_material' = set.cell
                   /\ stores' = IF set.ok THEN stores + 1 ELSE stores
                   /\ t_result' = [t_result EXCEPT ![t] =
                         IF set.ok THEN << [ok |-> TRUE] >>
                         ELSE << [ok |-> FALSE,
                                  message |-> "Key material already initialized"] >>]
            /\ t_pc' = [t_pc EXCEPT ![t] = "returned"]
            /\ UNCHANGED init_completed
       ELSE IF new_instance(answer) = << >>
       THEN /\ t_pc' = [t_pc EXCEPT ![t] = "panicked"]
            /\ t_result' = [t_result EXCEPT ![t] =
                  << [ok |-> FALSE, panic |-> new_instance_panic(answer)] >>]
            /\ UNCHANGED << key_material, stores, init_completed >>
       ELSE /\ \A u \in Tasks : t_pc[u] # "in_call_once"
            /\ LET once == call_once(init_completed, key_material, new_instance(answer)[1])
               IN  /\ key_material' = once.cell
                   /\ stores' = IF once.ran THEN stores + 1 ELSE stores
                   /\ t_pc' = [t_pc EXCEPT ![t] =
                         IF once.ran THEN "in_call_once" ELSE "returned"]
                   /\ t_result' = [t_result EXCEPT ![t] =
                         IF once.ran THEN << >> ELSE << [ok |-> TRUE] >>]
            /\ UNCHANGED init_completed
    /\ t_stored_answer' = IF stores' > stores THEN << answer >> ELSE t_stored_answer
    /\ UNCHANGED << variant, env, mw, waiter_vars, main_pc, t_late, t_requests, t_seen >>
    /\ UNCHANGED << handler_vars, attestation_vars, health_vars >>

\* The closure of INIT.call_once has returned: INIT is completed, and
\* KeyMaterial::init returns.
InitOnceCompleted(t) ==
    /\ Alive
    /\ t_pc[t] = "in_call_once"
    /\ init_completed' = TRUE
    /\ t_pc' = [t_pc EXCEPT ![t] = "returned"]
    /\ t_result' = [t_result EXCEPT ![t] = << [ok |-> TRUE] >>]
    /\ UNCHANGED << variant, env, mw, waiter_vars, main_pc, key_material, stores, t_late,
                    t_requests, t_seen, t_stored_answer >>
    /\ UNCHANGED << handler_vars, attestation_vars, health_vars >>

\* KeyMaterial::get_instance: it panics on an empty INSTANCE.
get_instance(cell) == [panics |-> cell = << >>, value |-> cell]

\* A lookup that makes a key when none is stored.
try_get_key_material_or_create(cell) ==
    IF cell = << >> THEN << new_random("random key 1") >> ELSE cell

\* try_get_key_material: KEY_MATERIAL.get().
try_get_key_material(cell) == cell

\* A task whose call has returned reads the key material
\* (try_get_key_material; KeyMaterial::get_instance).
InitObserve(t) ==
    /\ Alive
    /\ t_pc[t] = "returned"
    /\ IF variant = "dstack" /\ get_instance(key_material).panics
       THEN /\ t_pc' = [t_pc EXCEPT ![t] = "panicked_in_get_instance"]
            /\ t_seen' = t_seen
       ELSE /\ t_pc' = [t_pc EXCEPT ![t] = "observed"]
            /\ t_seen' = [t_seen EXCEPT ![t] =
                  << IF variant = "dstack" THEN get_instance(key_material).value
                     ELSE try_get_key_material(key_material) >>]
    /\ UNCHANGED << variant, env, mw, waiter_vars, main_pc, key_material, init_completed,
                    stores, t_late, t_requests, t_result, t_stored_answer >>
    /\ UNCHANGED << handler_vars, attestation_vars, health_vars >>

\* main after its call of the initialisation has returned: it exits on an
\* error and starts the server otherwise.
MainAfterInit ==
    /\ main_pc = "start"
    /\ t_pc["main"] \in {"returned", "observed"}
    /\ main_pc' = IF t_result["main"][1].ok THEN "serving" ELSE "failed"
    /\ UNCHANGED << variant, env, mw, waiter_vars, key_material >>
    /\ UNCHANGED << handler_vars, task_vars, attestation_vars, health_vars >>

\* The status attestation_route answers with.
attestation_status(attestation) == IF attestation.ok THEN 200 ELSE 500

\* get_attestation_report_with_signature up to the await of the quote
\* request. The tappd variant looks the key material up and returns an
\* error when there is none; the dstack variant calls
\* KeyMaterial::get_instance, which panics when there is none.
AttestationCall ==
    /\ a_pc = "idle"
    /\ a_quote_answer' = << >>
    /\ LET found == IF variant = "tappd" THEN try_get_key_material(key_material)
                    ELSE get_instance(key_material).value
       IN  IF found # << >>
           THEN /\ a_quote_requests' = 1
                /\ a_quote_request' = << quote_request(variant, found[1]) >>
                /\ a_result' = << >>
                /\ a_status' = 0
                /\ a_pc' = "await_quote"
           ELSE IF variant = "tappd"
           THEN /\ a_quote_requests' = 0
                /\ a_quote_request' = << >>
                /\ a_result' = << [ok |-> FALSE, message |-> "Key material not initialized"] >>
                /\ a_status' = attestation_status(a_result'[1])
                /\ a_pc' = "done"
           ELSE /\ a_quote_requests' = 0
                /\ a_quote_request' = << >>
                /\ a_result' = << >>
                /\ a_status' = 0
                /\ a_pc' = "panicked"
    /\ UNCHANGED << variant, env, mw, waiter_vars, main_pc, key_material >>
    /\ UNCHANGED << handler_vars, task_vars, health_vars >>

\* attestation_route up to the await of the quote request.
AttestationRoute ==
    /\ main_pc = "serving"
    /\ AttestationCall

\* get_attestation_report_with_signature called while main has not started
\* the server yet.
AttestationBeforeServing ==
    /\ Alive
    /\ main_pc = "start"
    /\ AttestationCall

\* attestation_route from the answer to the quote request on.
AttestationQuoteReturns(answer) ==
    /\ a_pc = "await_quote"
    /\ LET attestation ==
               get_attestation_report_with_signature(variant, key_material[1], answer)
       IN  /\ a_result' = << attestation >>
           /\ a_status' = attestation_status(attestation)
    /\ a_pc' = "done"
    /\ a_quote_answer' = << answer >>
    /\ UNCHANGED << variant, env, mw, waiter_vars, main_pc, key_material >>
    /\ UNCHANGED << a_quote_requests, a_quote_request >>
    /\ UNCHANGED << handler_vars, task_vars, health_vars >>

\* Its response is sent.
AttestationRespond ==
    /\ a_pc = "done"
    /\ a_pc' = "idle"
    /\ a_quote_requests' = 0
    /\ a_quote_request' = << >>
    /\ a_quote_answer' = << >>
    /\ a_result' = << >>
    /\ a_status' = 0
    /\ UNCHANGED << variant, env, mw, waiter_vars, main_pc, key_material >>
    /\ UNCHANGED << handler_vars, task_vars, health_vars >>

\* What the service answers to a probe.
ProbeAnswers ==
    { NoConnection } \cup {HttpResponse(status, << >>) : status \in {200, 204, 404, 500}}

\* StatusCode::is_success
is_success(status) == status \in 200..299

\* DStackClient::is_reachable from the answer on, with the unwrap_or(false)
\* of health_check.
is_reachable(answer) == answer.conn /\ is_success(answer.status)

\* The status health_check answers with: the tappd variant asks nothing and
\* answers 200, the dstack variant probes the service.
health_status(v, answer) ==
    IF v = "tappd" THEN 200
    ELSE IF is_reachable(answer) THEN 200 ELSE 503

\* health_check. answer is what the service answers to a probe at the time.
HealthCheck(answer) ==
    /\ main_pc = "serving"
    /\ hc_pc = "idle"
    /\ hc_pc' = "done"
    /\ hc_answer' = << answer >>
    /\ hc_status' = health_status(variant, answer)
    /\ UNCHANGED << variant, env, mw, waiter_vars, main_pc, key_material >>
    /\ UNCHANGED << handler_vars, task_vars, attestation_vars >>

\* Its response is sent.
HealthRespond ==
    /\ hc_pc = "done"
    /\ hc_pc' = "idle"
    /\ hc_answer' = << >>
    /\ hc_status' = 0
    /\ UNCHANGED << variant, env, mw, waiter_vars, main_pc, key_material >>
    /\ UNCHANGED << handler_vars, task_vars, attestation_vars >>

\* The bodies sent to verify_proof_route while the initialisation is looked at.
KeyBodies ==
    { NoBody, Envelope(VersionAlpha7, << "0", "1" >>) }

KeyInit ==
    /\ Init
    /\ env = [TLSN_VERIFIER_ACCEPTED_VERSION |-> << >>,
              TLSN_VERIFIER_ACCEPTED_SERVER_NAMES |-> << >>,
              TLSN_VERIFIER_API_KEY |-> << ApiKey >>]

KeyNext ==
    \/ \E t \in Tasks : InitCall(t)
    \/ \E t \in Tasks, answer \in DeriveKeyResponses, random \in RandomKeys :
          InitDerived(t, answer, random)
    \/ \E t \in Tasks : InitOnceCompleted(t)
    \/ \E t \in Tasks : InitObserve(t)
    \/ MainAfterInit
    \/ \E body \in KeyBodies : VerifyProofRoute(body)
    \/ \E answer \in QuoteResponses : QuoteReturns(answer)
    \/ Respond
    \/ AttestationRoute
    \/ \E answer \in QuoteResponses : AttestationQuoteReturns(answer)
    \/ AttestationRespond
    \/ \E answer \in ProbeAnswers : HealthCheck(answer)
    \/ HealthRespond

KeySpec == KeyInit /\ [][KeyNext]_vars

(***************************************************************************)
(* The initialisation beside callers that do not wait for main             *)
(***************************************************************************)

\* KeyMaterial::get_instance_async up to its await: with INIT completed it
\* goes on to get_instance at once, otherwise it sleeps 100 ms.
GetInstanceAsyncCall ==
    /\ variant = "dstack"
    /\ Alive
    /\ g_pc = "idle"
    /\ g_in_flight' = (~init_completed
                        /\ \E t \in Tasks : t_pc[t] \in {"await_derive_key", "in_call_once"})
    /\ IF init_completed
       THEN /\ g_pc' = IF get_instance(key_material).panics THEN "panicked" ELSE "returned"
            /\ g_seen' = get_instance(key_material).value
       ELSE /\ g_pc' = "sleeping"
            /\ g_seen' = g_seen
    /\ UNCHANGED << variant, env, mw, main_pc, key_material >>
    /\ UNCHANGED << handler_vars, task_vars, attestation_vars, health_vars >>

\* The sleep is over, however far the initialisation has got in the
\* meantime: get_instance_async calls get_instance.
GetInstanceAsyncWake ==
    /\ g_pc = "sleeping"
    /\ g_pc' = IF get_instance(key_material).panics THEN "panicked" ELSE "returned"
    /\ g_seen' = get_instance(key_material).value
    /\ UNCHANGED << variant, env, mw, main_pc, key_material, g_in_flight >>
    /\ UNCHANGED << handler_vars, task_vars, attestation_vars, health_vars >>

InitNext ==
    \/ \E t \in Tasks : InitCall(t)
    \/ \E t \in Tasks, answer \in DeriveKeyResponses, random \in RandomKeys :
          InitDerived(t, answer, random)
    \/ \E t \in Tasks : InitOnceCompleted(t)
    \/ \E t \in Tasks : InitObserve(t)
    \/ MainAfterInit
    \/ AttestationBeforeServing
    \/ AttestationRoute
    \/ \E answer \in QuoteResponses : AttestationQuoteReturns(answer)
    \/ AttestationRespond
    \/ GetInstanceAsyncCall
    \/ GetInstanceAsyncWake

InitSpec == KeyInit /\ [][InitNext]_vars

(***************************************************************************)
(* The routes behind the ApiKeyAuth middleware                             *)
(***************************************************************************)

\* What a request carries as x-api-key: << >> with no such header, else
\* << the bytes of its value >>.
HeaderValues ==
    { << >>,
      << AsBytes(ApiKey) >>,
      << AsBytes(<< "k", "2" >>) >>,
      << AsBytes(<< "K", "1" >>) >>,
      << AsBytes(<< "k" >>) >>,
      << << >> >>,
      << << 107, 255 >> >> }

\* HeaderValue::to_str: the text of a value of visible ASCII, << >> for any
\* other.
to_str(value) ==
    IF \A i \in 1..Len(value) : value[i] \in 32..126 \/ value[i] = 9
    THEN << from_utf8_lossy(value) >>
    ELSE << >>

\* A check that takes any x-api-key that is text.
authorized_when_present(header, api_key) ==
    header # << >> /\ to_str(header[1]) # << >>

\* headers().get("x-api-key").and_then(|v| v.to_str().ok())
\*     .map_or(false, |key| key == api_key)
authorized(header, api_key) ==
    /\ header # << >>
    /\ to_str(header[1]) # << >>
    /\ to_str(header[1])[1] = api_key

\* ApiKeyAuthMiddleware::call on a request for a route: the request is
\* forwarded to the inner service when it is authorized, and answered with
\* 401 Unauthorized otherwise.
ApiKeyAuthCall(route, header, body) ==
    /\ main_pc = "serving"
    /\ mw[route].pc = "idle"
    /\ LET api_key == env.TLSN_VERIFIER_API_KEY[1]
       IN  mw' = [mw EXCEPT ![route] =
                    IF authorized(header, api_key)
                    THEN [pc |-> "forwarded", header |-> header, body |-> body, status |-> 0]
                    ELSE [pc |-> "rejected", header |-> header, body |-> body, status |-> 401]]
    /\ UNCHANGED << variant, env, main_pc, key_material, waiter_vars >>
    /\ UNCHANGED << handler_vars, task_vars, attestation_vars, health_vars >>

\* The inner service is called with a request the middleware forwarded.
Forwarded(route) == mw[route].pc = "forwarded"

\* The handler of the route has its response.
HandlerDone(route) ==
    CASE route = "/verify-proof" -> h_pc = "done"
      [] route = "/attestation" -> a_pc = "done"
      [] route = "/health" -> hc_pc = "done"

\* The status of that response.
HandlerStatus(route) ==
    CASE route = "/verify-proof" -> h_status
      [] route = "/attestation" -> a_status
      [] route = "/health" -> hc_status

\* The future of ApiKeyAuthMiddleware::call resolves: with the 401 it built,
\* after which the route takes the next request, or with the response of the
\* inner service.
ApiKeyAuthReturn(route) ==
    /\ \/ /\ mw[route].pc = "rejected"
          /\ mw' = [mw EXCEPT ![route] = NoRequest]
       \/ /\ mw[route].pc = "forwarded"
          /\ HandlerDone(route)
          /\ mw' = [mw EXCEPT ![route] =
                       [@ EXCEPT !.pc = "returned", !.status = HandlerStatus(route)]]
    /\ UNCHANGED << variant, env, main_pc, key_material, waiter_vars >>
    /\ UNCHANGED << handler_vars, task_vars, attestation_vars, health_vars >>

\* The bodies requests for a route carry.
RouteBodies(route) == IF route = "/verify-proof" THEN KeyBodies ELSE {NoBody}

AuthNext ==
    \/ MainStart
    \/ \E answer \in DeriveKeyResponses, random \in RandomKeys : MainInitTappd(answer, random)
    \/ \E answer \in DeriveKeyResponses : MainInitDstack(answer)
    \/ \E route \in Routes, header \in HeaderValues :
          \E body \in RouteBodies(route) : ApiKeyAuthCall(route, header, body)
    \/ Forwarded("/verify-proof") /\ VerifyProofRoute(mw["/verify-proof"].body)
    \/ \E answer \in QuoteResponses : QuoteReturns(answer)
    \/ Forwarded("/attestation") /\ AttestationRoute
    \/ \E answer \in QuoteResponses : AttestationQuoteReturns(answer)
    \/ \E answer \in ProbeAnswers : Forwarded("/health") /\ HealthCheck(answer)
    \/ \E route \in Routes : ApiKeyAuthReturn(route)

AuthSpec == KeyInit /\ [][AuthNext]_vars

(***************************************************************************)
(* Properties                                                              *)
(***************************************************************************)

\* The handler holds the result of verify_proof for the request in hand.
Verified == h_verification # << >>

\* That result.
V == h_verification[1]

\* Step name ran in the verification in hand, and where in the order.
Ran(name) == \E i \in 1..Len(V.steps) : V.steps[i] = name
Pos(name) == CHOOSE i \in 1..Len(V.steps) : V.steps[i] = name

\* The configured accepted version.
AcceptedVersion ==
    IF env.TLSN_VERIFIER_ACCEPTED_VERSION = << >>
    THEN "0.1.0-alpha.10"
    ELSE env.TLSN_VERIFIER_ACCEPTED_VERSION[1]

\* The request in hand is an envelope of the accepted version whose payload
\* decodes to a presentation, and that presentation.
Decodes ==
    /\ h_body.wellformed
    /\ h_body.version = AcceptedVersion
    /\ to_presentation(h_body.data).ok
Subject == to_presentation(h_body.data).presentation

\* The crypto primitive accepts the presentation in hand, and its output.
Proven == Decodes /\ Subject.verify_ok
Output == Subject.output

\* The server identity the presentation in hand asserts.
Asserted == IF Output.server_name = << >> THEN NoServerName ELSE Output.server_name[1]

\* The allow-list holds name, under exact equality of strings.
Allowed(name) ==
    LET names == get_server_names(env)
    IN  \E i \in 1..Len(names) : names[i] = name

\* C1: an envelope that parses and whose version is not the accepted one gets
\* a version-mismatch error, and for it neither the payload is decoded nor
\* the presentation verified, whether or not the payload would decode.
C1_VersionCheckedFirst ==
    (Verified /\ h_body.wellformed /\ h_body.version # AcceptedVersion)
        => /\ ~V.ok
           /\ V.message = << "Version mismatch", AcceptedVersion, h_body.version >>
           /\ ~Ran("to_presentation")
           /\ ~Ran("verify")

\* C1 witness: a version mismatch on a payload that does not decode.
C1_Witness ==
    /\ Verified
    /\ h_body = Envelope(VersionAlpha7, << "z", "z" >>)
    /\ AcceptedVersion = VersionAlpha10
    /\ V.message[1] = "Version mismatch"

\* The text sent and received in the presentation in hand, redacted.
SentText == from_utf8_lossy(set_unauthed(Output.transcript[1], Ord("X")).sent)
RecvText == from_utf8_lossy(set_unauthed(Output.transcript[1], Ord("X")).received)

\* line is a Host header, its name in any capitalisation; its value is the
\* text after the colon, trimmed.
IsHostHeader(line) == Len(line) >= 5 /\ to_lowercase(SubSeq(line, 1, 5)) = W_host
HostHeaderValue(line) == trim(From(line, 6))

\* line, as a whole, has the shape
\* GET <optional http(s)://authority>/users/<segment>/credit-score HTTP/1.1.
WholeRequestLine(line) == (Len(line) + 1) \in path_regex_ends(line, {1})

\* In s a fragment "value" : digits starts at i, its digits at d.
ScoreFragment(s, i, d) ==
    /\ LitAt(s, W_value, i)
    /\ d \in 1..Len(s)
    /\ is_digit(s[d])
    /\ \E c \in (i + Len(W_value))..(d - 1) :
          /\ s[c] = ":"
          /\ \A k \in ((i + Len(W_value))..(d - 1)) \ {c} : is_whitespace(s[k])

\* The digits that start at d in s, to the last one.
DigitsAt(s, d) ==
    SubSeq(s, d, CHOOSE e \in d..Len(s) :
                    /\ \A k \in d..e : is_digit(s[k])
                    /\ (e = Len(s) \/ ~is_digit(s[e + 1])))

HasScoreFragment(s) == \E i \in 1..Len(s), d \in 1..Len(s) : ScoreFragment(s, i, d)

\* The digits of the first fragment of s.
FirstScore(s) ==
    LET i == CHOOSE x \in 1..Len(s) :
                /\ \E d \in 1..Len(s) : ScoreFragment(s, x, d)
                /\ \A y \in 1..(x - 1) : ~\E d \in 1..Len(s) : ScoreFragment(s, y, d)
    IN  DigitsAt(s, CHOOSE d \in 1..Len(s) : ScoreFragment(s, i, d))

\* The connection time is a time chrono holds: it does not exceed
\* NaiveDateTime::MAX (a u64 is not negative).
TimeRepresentable == LimbsLeq(Output.time, MaxTimestamp)

\* C2: a proof the crypto primitive accepts, of an allowed server S, with a
\* verifying key, a time chrono holds and a transcript whose first line sent
\* is the credit-score request, with a Host header of value S in any
\* capitalisation of its name, and whose response holds "value": D, is
\* verified with is_valid, server_name S and score D.
C2_Completeness ==
    (/\ Verified
     /\ Proven
     /\ Subject.verifying_key # << >>
     /\ Output.server_name # << >>
     /\ Allowed(Asserted)
     /\ TimeRepresentable
     /\ Output.transcript # << >>
     /\ lines(SentText) # << >>
     /\ WholeRequestLine(lines(SentText)[1])
     /\ \E k \in 1..Len(lines(SentText)) :
           /\ IsHostHeader(lines(SentText)[k])
           /\ HostHeaderValue(lines(SentText)[k]) = Asserted
     /\ HasScoreFragment(RecvText))
        => /\ V.ok
           /\ V.value.is_valid
           /\ V.value.server_name = Asserted
           /\ V.value.score = FirstScore(RecvText)

\* C3: when a proof is accepted, the text sent holds a Host header whose
\* value is the server name of the result.
C3_HostSound ==
    (Verified /\ V.ok)
        => \E k \in 1..Len(lines(V.value.sent_readable)) :
              /\ IsHostHeader(lines(V.value.sent_readable)[k])
              /\ HostHeaderValue(lines(V.value.sent_readable)[k]) = V.value.server_name

\* C4: the server name of an accepted proof is the identity the proof asserts
\* and is an entry of the allow-list under exact equality; a proof whose
\* identity is no entry, be it by letter case alone, is rejected.
C4_AllowListed ==
    /\ (Verified /\ V.ok) => (V.value.server_name = Asserted /\ Allowed(V.value.server_name))
    /\ (Verified /\ Proven /\ ~Allowed(Asserted)) => ~V.ok

\* C4 witness: example.com is rejected under the list "Example.com,evil.org",
\* which differs from it by case alone.
C4_Witness ==
    /\ Verified
    /\ Proven
    /\ Asserted = NameExample
    /\ env.TLSN_VERIFIER_ACCEPTED_SERVER_NAMES = << NamesOthers >>
    /\ V.message[1] = "Server name is not in the accepted list"

\* C5: a proof whose first line sent is not, as a whole line, the
\* credit-score request is rejected.
C5_WholeRequestLine ==
    (/\ Verified
     /\ Proven
     /\ Output.transcript # << >>
     /\ (lines(SentText) = << >> \/ ~WholeRequestLine(lines(SentText)[1])))
        => ~V.ok

\* C6: a proof whose response, redacted, holds no fragment "value": digits is
\* rejected; the score of an accepted proof is the digits of the first such
\* fragment of the redacted response, character for character.
C6_Score ==
    /\ (Verified /\ Proven /\ Output.transcript # << >> /\ ~HasScoreFragment(RecvText))
          => ~V.ok
    /\ (Verified /\ V.ok)
          => /\ V.value.recv_readable = RecvText
             /\ HasScoreFragment(RecvText)
             /\ V.value.score = FirstScore(RecvText)
             /\ \A k \in 1..Len(V.value.score) : is_digit(V.value.score[k])

\* C6 witness: of two fragments the first gives the score, zeros and all.
C6_Witness ==
    /\ Verified
    /\ V.ok
    /\ V.value.score = << "0", "0", "7" >>

\* C7 as claimed: where the verifying key is checked, the external
\* verification has run before.
C7_KeyCheckAfterVerify ==
    (Verified /\ Ran("check_verifying_key"))
        => (Ran("verify") /\ Pos("verify") < Pos("check_verifying_key"))

\* C7 as amended: the verifying key checked is that of the decoded
\* presentation; the check runs before the external verification and before
\* the transcript is read, and a proof with an empty key is rejected
\* without the external verification being called.
C7_KeyCheckBeforeVerify ==
    /\ (Verified /\ Ran("verify"))
          => (Ran("check_verifying_key") /\ Pos("check_verifying_key") < Pos("verify"))
    /\ (Verified /\ Ran("set_unauthed"))
          => (Ran("check_verifying_key") /\ Pos("check_verifying_key") < Pos("set_unauthed"))
    /\ (Verified /\ Decodes /\ Subject.verifying_key = << >>)
          => /\ ~V.ok
             /\ V.message = << "Verifying key is empty or missing" >>
             /\ ~Ran("verify")

\* C7 witness: a proof with an empty key that the primitive would accept.
C7_Witness ==
    /\ Verified
    /\ Decodes
    /\ Subject.verifying_key = << >>
    /\ Subject.verify_ok
    /\ ~V.ok

\* C8: a proof whose connection time is no time chrono holds is rejected,
\* with the timestamp error when the time is looked at.
C8_TimestampRange ==
    (Verified /\ Proven /\ ~TimeRepresentable)
        => /\ ~V.ok
           /\ Ran("from_timestamp_opt") => V.message = << "Invalid or missing timestamp" >>

\* The hex digits of the byte at position i.
HexAt(hex, i) == << hex[2 * i - 1], hex[2 * i] >>

\* C9: in an accepted result every byte the proof does not authenticate
\* reads X (hex 58) in the four transcript fields, every other byte is the
\* byte of the transcript, and the Host, request-line and score checks hold
\* of the redacted text.
C9_Redacted ==
    (Verified /\ V.ok)
        => LET t == Output.transcript[1]
               r == V.value
           IN  /\ Len(r.sent_readable) = Len(t.sent)
               /\ Len(r.recv_readable) = Len(t.received)
               /\ Len(r.sent_hex_encoded) = 2 * Len(t.sent)
               /\ Len(r.recv_hex_encoded) = 2 * Len(t.received)
               /\ \A i \in 1..Len(t.sent) :
                     IF i \in t.sent_authed
                     THEN HexAt(r.sent_hex_encoded, i) = hex_encode(<< t.sent[i] >>)
                     ELSE /\ r.sent_readable[i] = "X"
                          /\ HexAt(r.sent_hex_encoded, i) = << "5", "8" >>
               /\ \A i \in 1..Len(t.received) :
                     IF i \in t.recv_authed
                     THEN HexAt(r.recv_hex_encoded, i) = hex_encode(<< t.received[i] >>)
                     ELSE /\ r.recv_readable[i] = "X"
                          /\ HexAt(r.recv_hex_encoded, i) = << "5", "8" >>
               /\ find_host_line(r.sent_readable) # << >>
               /\ host_value(find_host_line(r.sent_readable)[1]) = r.server_name
               /\ path_regex_captures(lines(r.sent_readable)[1])
               /\ score_regex_captures(r.recv_readable) = << r.score >>

\* C9 witness: an accepted proof with bytes sent and received that it does
\* not authenticate.
C9_Witness ==
    /\ Verified
    /\ V.ok
    /\ Output.transcript[1].sent_authed # 1..Len(Output.transcript[1].sent)
    /\ Output.transcript[1].recv_authed # 1..Len(Output.transcript[1].received)

\* C10: for a request in the handler the attestation is called once and one
\* quote request is sent, whatever the verification gave; the response
\* carries the verification result as verify_proof returned it, whatever the
\* attestation gave, and each slot says whether it is a result or an error.
C10_IndependentSlots ==
    /\ h_pc \in {"await_quote", "done"}
          => (Verified /\ h_attest_calls = 1 /\ h_quote_requests = 1)
    /\ h_pc = "done"
          => /\ h_response # << >>
             /\ h_response[1].verification = V
             /\ h_response[1].verification.ok \in BOOLEAN
             /\ h_response[1].attestation.ok \in BOOLEAN

\* C10 witness: the proof is valid and the attestation failed.
C10_Witness ==
    /\ h_pc = "done"
    /\ h_response[1].verification.ok
    /\ ~h_response[1].attestation.ok

\* C11: the status of a response of verify_proof_route is 200 exactly when
\* both slots hold results, 400 exactly when the verification failed and the
\* attestation succeeded, 500 exactly when the attestation failed; there is
\* no other status.
C11_StatusOfSlots ==
    h_pc = "done"
        => LET verified == h_response[1].verification.ok
               attested == h_response[1].attestation.ok
           IN  /\ h_status \in {200, 400, 500}
               /\ h_status = 200 <=> (verified /\ attested)
               /\ h_status = 400 <=> (~verified /\ attested)
               /\ h_status = 500 <=> ~attested

\* C11 witness: neither the verification nor the attestation succeeded.
C11_Witness ==
    /\ h_pc = "done"
    /\ ~h_response[1].verification.ok
    /\ ~h_response[1].attestation.ok
    /\ h_status = 500

\* The service is reachable: a probe is answered, with a success status.
ServiceReachable(answer) == answer.conn /\ answer.status \in 200..299

\* C12: health_check answers 200 when the service is reachable at the time
\* and 503 when it is not.
C12_HealthReflectsService ==
    hc_pc = "done"
        => /\ hc_status \in {200, 503}
           /\ hc_status = 200 <=> ServiceReachable(hc_answer[1])

\* The signed attestations the two routes hold.
SignedAttestations ==
    {a_result[k].value : k \in {j \in 1..Len(a_result) : a_result[j].ok}}
        \cup {h_response[k].attestation.value :
                 k \in {j \in 1..Len(h_response) : h_response[j].attestation.ok}}

\* C13: every signed attestation carries the hex of the uncompressed public
\* key of the key material the process stores, and its signature is made by
\* that key; the key material was stored once.
C13_AttestedKeyIsStoredKey ==
    \A sa \in SignedAttestations :
        /\ key_material # << >>
        /\ stores = 1
        /\ sa.verifying_key_hex_encoded
              = hex_encode(public_key_bytes(key_material[1].signing_key))
        /\ sa.signature_hex_encoded.signer = key_material[1].signing_key

\* C13 witness: both routes hold a signed attestation while the other
\* caller of the initialisation has come back.
C13_Witness ==
    /\ a_pc = "done"
    /\ a_result[1].ok
    /\ h_pc = "done"
    /\ h_response[1].attestation.ok
    /\ t_pc["other"] \in {"returned", "observed"}

\* C14: the message signed for a signed attestation is the bytes the quote
\* is the hex of.
C14_SignsRawQuote ==
    \A sa \in SignedAttestations :
        /\ hex_decode(sa.quote).ok
        /\ sa.signature_hex_encoded.message = hex_decode(sa.quote).bytes

\* The quote requests in flight or answered.
QuoteRequestsSent ==
    {a_quote_request[k] : k \in 1..Len(a_quote_request)}
        \cup {h_quote_request[k] : k \in 1..Len(h_quote_request)}

\* C15: every quote request carries 0x and the hex of the SHA-512 digest of
\* the stored key's uncompressed public key, and the hash algorithm raw.
C15_QuoteRequestContent ==
    \A request \in QuoteRequestsSent :
        /\ key_material # << >>
        /\ request.report_data
              = [prefix |-> << "0", "x" >>,
                 hex_of |-> [sha512_of |-> public_key_bytes(key_material[1].signing_key)]]
        /\ request.hash_algorithm = << "raw" >>

\* An answer that is one of the failures of a service call: no connection,
\* a body that does not parse, a status that is no success.
ServiceFailed(answer) ==
    \/ ~answer.conn
    \/ answer.body = << >>
    \/ answer.status \notin 200..299

\* C16: a quote request the service failed yields an error with a message
\* and no quote, in either route.
C16_FailuresAreErrors ==
    /\ (a_pc = "done" /\ a_quote_answer # << >> /\ ServiceFailed(a_quote_answer[1]))
          => (~a_result[1].ok /\ a_result[1].message # "")
    /\ (h_pc = "done" /\ h_quote_answer # << >> /\ ServiceFailed(h_quote_answer[1]))
          => (~h_response[1].attestation.ok /\ h_response[1].attestation.message # "")

\* C17: a call of the initialisation sends at most one derive-key request
\* and a handled request at most one quote request; a quote request that
\* got no connection, or that the handler took for failed, is answered
\* with the error after that one request.
C17_NoRetry ==
    /\ \A t \in Tasks : t_requests[t] <= 1
    /\ a_quote_requests <= 1
    /\ h_quote_requests <= 1
    /\ a_pc = "done"
          => /\ a_quote_requests = 1
             /\ a_quote_answer = << NoConnection >> => ~a_result[1].ok
    /\ h_pc = "done"
          => /\ h_quote_requests = 1
             /\ h_quote_answer = << NoConnection >> => ~h_response[1].attestation.ok

\* C17 witness: the derive-key request failed and the key is a random one;
\* a quote request got no connection and its error is the answer.
C17_Witness ==
    /\ a_pc = "done"
    /\ a_quote_answer = << NoConnection >>
    /\ ~a_result[1].ok
    /\ a_quote_requests = 1
    /\ key_material[1].source = "Random"
    /\ t_requests["main"] = 1

\* The task's call of the initialisation has returned.
Returned(t) == t_pc[t] \in {"returned", "observed"}

\* C18: when the calls of both tasks have returned, one key material is
\* stored and it was stored once; the tasks that read it afterwards read
\* that key material.
C18_OneKeyStored ==
    /\ (\A t \in Tasks : Returned(t))
          => (key_material # << >> /\ stores = 1)
    /\ (\A t \in Tasks : t_pc[t] = "observed")
          => \A t \in Tasks :
                /\ t_seen[t] = << key_material >>
                /\ public_key_bytes(t_seen[t][1][1].signing_key)
                      = public_key_bytes(key_material[1].signing_key)

\* C18 witness: both tasks called before a key was stored, each sent its
\* request, and both have read the key material.
C18_Witness ==
    /\ \A t \in Tasks : t_pc[t] = "observed" /\ ~t_late[t] /\ t_requests[t] = 1
    /\ stores = 1

\* C19: the derive-key request is sent at most once in the life of the
\* process, and a task that calls once the key material is stored sends none.
C19_DeriveOnce ==
    /\ t_requests["main"] + t_requests["other"] <= 1
    /\ \A t \in Tasks : t_late[t] => t_requests[t] = 0

\* C20: a call of the initialisation made once the key material is stored
\* returns without an error.
C20_SecondCallSucceeds ==
    \A t \in Tasks : (t_late[t] /\ t_result[t] # << >>) => t_result[t][1].ok

\* C21: the stored key material is written at most once, and once it holds
\* a key no step of any caller changes it: its key, source and certificate
\* chain stay those of the first store.
C21_KeyMaterialSetOnce ==
    [][/\ stores' <= 1
       /\ key_material # << >> => key_material' = key_material]_vars

\* C21 witness: a task that called while another's initialisation was in
\* flight has got its own answer and has returned after the key was stored.
C21_Witness ==
    \E t \in Tasks :
        /\ ~t_late[t] /\ t_requests[t] = 1 /\ Returned(t)
        /\ \E u \in Tasks \ {t} : Returned(u) /\ ~t_late[u] /\ t_requests[u] = 1
        /\ stores = 1
        /\ key_material # << >>

\* The service could not be reached, or its answer did not parse as a
\* derive-key response.
DeriveFailed(answer) == ~answer.conn \/ answer.body = << >>

\* The task's initialisation panicked on a derive-key request that failed in
\* that way.
PanickedOnFailedDerive(t) ==
    /\ t_pc[t] = "panicked"
    /\ t_result[t][1].panic.cause.message = "Failed to derive key"
    /\ t_result[t][1].panic.cause.cause.text = << >>

\* C22: when the derive-key request fails because the service is unreachable
\* or answers with a malformed response, the initialisation does not abort:
\* it returns without an error and the key material stored from that answer
\* is a random key, source Random.
C22_FallsBackToRandom ==
    /\ \A t \in Tasks : ~PanickedOnFailedDerive(t)
    /\ (t_stored_answer # << >> /\ DeriveFailed(t_stored_answer[1]))
          => /\ key_material[1].source = "Random"
             /\ key_material[1].signing_key \in RandomKeys
             /\ \E t \in Tasks : t_result[t] = << [ok |-> TRUE] >>

\* The derive-key request succeeded and the key it returned parses.
KeyParsed(answer) ==
    /\ answer.conn
    /\ answer.body # << >>
    /\ parse_signing_key(answer.body[1].key) # << >>

\* C23: in the tappd variant the stored key material has source Tappd exactly
\* when the derive-key request succeeded and the returned key parsed, and
\* then it holds that key and the certificate chain the service returned;
\* otherwise (also when the returned key does not parse) the call that stored
\* it returned without an error, and it holds a random key, source Random,
\* with no certificate chain.
C23_UnparsableKeyIsRandom ==
    (variant = "tappd" /\ key_material # << >> /\ t_stored_answer # << >>)
        => LET km == key_material[1]
               answer == t_stored_answer[1]
           IN  /\ km.source \in {"Tappd", "Random"}
               /\ km.source = "Tappd" <=> KeyParsed(answer)
               /\ km.source = "Tappd"
                     => /\ << km.signing_key >> = parse_signing_key(answer.body[1].key)
                        /\ km.certificate_chain = << answer.body[1].certificate_chain >>
               /\ km.source = "Random"
                     => /\ km.signing_key \in RandomKeys
                        /\ km.certificate_chain = << >>
               /\ \E t \in Tasks : t_result[t] = << [ok |-> TRUE] >>

\* C23 witness: the service answered the derive-key request with a key that
\* does not parse, and the call has stored a random key and returned.
C23_Witness ==
    /\ variant = "tappd"
    /\ t_stored_answer # << >>
    /\ t_stored_answer[1].conn
    /\ t_stored_answer[1].status = 200
    /\ t_stored_answer[1].body # << >>
    /\ parse_signing_key(t_stored_answer[1].body[1].key) = << >>
    /\ key_material # << >>
    /\ key_material[1].source = "Random"
    /\ \E t \in Tasks : Returned(t) /\ t_result[t] = << [ok |-> TRUE] >>

\* The handler of the route has been invoked: it runs or holds a response,
\* a verification was made, or a quote was requested for its request.
HandlerInvoked(route) ==
    CASE route = "/verify-proof" ->
             h_pc # "idle" \/ h_verification # << >> \/ h_attest_calls > 0
                \/ h_quote_requests > 0 \/ h_response # << >>
      [] route = "/attestation" -> a_pc # "idle" \/ a_quote_requests > 0 \/ a_result # << >>
      [] route = "/health" -> hc_pc # "idle" \/ hc_answer # << >>

\* C24: on every route, a request whose x-api-key header is absent, is not
\* text or differs from the configured secret is answered with 401 and the
\* handler is not invoked for it: no verification, no quote request and no
\* signing happen. A request with the secret is forwarded as it is, and its
\* response is the handler's.
C24_Unauthorized401 ==
    \A route \in Routes :
        LET req == mw[route]
            matches == req.header = << AsBytes(ApiKey) >>
        IN  /\ req.pc # "idle" => (req.pc = "rejected" <=> ~matches)
            /\ req.pc = "rejected" => req.status = 401
            /\ HandlerInvoked(route) => (req.pc \in {"forwarded", "returned"} /\ matches)
            /\ (route = "/verify-proof" /\ HandlerInvoked(route)) => h_body = req.body
            /\ req.pc = "returned" => req.status = HandlerStatus(route)

\* C24 witness: a request for /verify-proof with another key and a request
\* for /attestation with a header that is not text are held rejected, while
\* a request for /health with the secret has been answered by its handler.
C24_Witness ==
    /\ mw["/verify-proof"].pc = "rejected"
    /\ mw["/verify-proof"].header = << AsBytes(<< "k", "2" >>) >>
    /\ mw["/attestation"].pc = "rejected"
    /\ mw["/attestation"].header = << << 107, 255 >> >>
    /\ mw["/health"].pc = "returned"
    /\ key_material # << >>

\* The text, a body of the service copied as it came, holds a key the service
\* returned.
HoldsReturnedKey(text) ==
    text # << >> /\ \E r \in GetKeyResponses : text[1].key = r.key

\* The messages of the errors whose text is fixed.
FixedMessages ==
    { "Key material already initialized", "Key material not initialized",
      "Failed to send request", "Failed to parse GetQuoteResponse",
      "Failed to generate quote" }

\* C25: no error the key initialisation or the attestation produces holds
\* the private signing key or key material the service returned: the error
\* an initialisation returns and the errors of the attestation have a fixed
\* text, and the error an initialisation fails with carries no text of the
\* service that holds a key.
C25_ErrorsHoldNoKey ==
    /\ \A t \in Tasks :
          (t_result[t] # << >> /\ ~t_result[t][1].ok)
             => IF t_pc[t] = "panicked"
                THEN LET cause == t_result[t][1].panic.cause
                     IN  cause.message = "Failed to derive key"
                            => ~HoldsReturnedKey(cause.cause.text)
                ELSE t_result[t][1].message \in FixedMessages
    /\ (a_result # << >> /\ ~a_result[1].ok) => a_result[1].message \in FixedMessages
    /\ (h_response # << >> /\ ~h_response[1].attestation.ok)
          => h_response[1].attestation.message \in FixedMessages

\* The steps of a verification, in the order the claim gives them (the
\* redaction of the transcript is the step between its presence and Host).
CheckOrder ==
    << "from_json_str", "check_version", "to_presentation", "check_verifying_key",
       "verify", "check_server_name", "from_timestamp_opt", "transcript",
       "set_unauthed", "host", "request_line", "score" >>

\* The errors of a step.
ErrorsOf(step) ==
    CASE step = "from_json_str" -> {"Invalid JSON format"}
      [] step = "check_version" -> {"Version mismatch"}
      [] step = "to_presentation" -> {"Invalid presentation encoding"}
      [] step = "check_verifying_key" -> {"Verifying key is empty or missing"}
      [] step = "verify" -> {"Presentation verification failed"}
      [] step = "check_server_name" -> {"Server name is not in the accepted list"}
      [] step = "from_timestamp_opt" -> {"Invalid or missing timestamp"}
      [] step = "transcript" -> {"Missing transcript in presentation output"}
      [] step = "host" -> {"Missing 'Host' header in sent transcript",
                           "Host header does not match server name"}
      [] step = "request_line" -> {"Missing request line in sent transcript",
                                   "Request path is missing or invalid"}
      [] step = "score" -> {"Credit score value is missing from response"}
      [] OTHER -> {}

\* The last step of the verification in hand.
LastStep == V.steps[Len(V.steps)]

\* C26: the steps of a verification are an initial part of the fixed order;
\* a verification that fails reports the error of its last step, so no step
\* ran after the one that failed; and a request that fails several checks
\* fails at the earliest of them.
C26_FirstFailingCheck ==
    Verified =>
        /\ V.steps = SubSeq(CheckOrder, 1, Len(V.steps))
        /\ V.ok => V.steps = CheckOrder
        /\ ~V.ok => V.message[1] \in ErrorsOf(LastStep)
        /\ ~h_body.wellformed => (~V.ok /\ LastStep = "from_json_str")
        /\ (h_body.wellformed /\ h_body.version # AcceptedVersion)
              => (~V.ok /\ LastStep = "check_version")
        /\ (h_body.wellformed /\ h_body.version = AcceptedVersion /\ ~Decodes)
              => (~V.ok /\ LastStep = "to_presentation")
        /\ (Decodes /\ Subject.verifying_key = << >>)
              => (~V.ok /\ LastStep = "check_verifying_key")
        /\ (Decodes /\ Subject.verifying_key # << >> /\ ~Subject.verify_ok)
              => (~V.ok /\ LastStep = "verify")
        /\ (Proven /\ Subject.verifying_key # << >> /\ ~Allowed(Asserted))
              => (~V.ok /\ LastStep = "check_server_name")
        /\ (Proven /\ Subject.verifying_key # << >> /\ Allowed(Asserted)
               /\ from_timestamp_opt(as_i64(Output.time)) = << >>)
              => (~V.ok /\ LastStep = "from_timestamp_opt")
        /\ (Proven /\ Subject.verifying_key # << >> /\ Allowed(Asserted)
               /\ from_timestamp_opt(as_i64(Output.time)) # << >>
               /\ Output.transcript = << >>)
              => (~V.ok /\ LastStep = "transcript")

\* C26 witness: a proof with an empty key that the primitive rejects and
\* whose server is not in the allow-list has been answered with the error
\* of the key check.
C26_Witness ==
    /\ Verified
    /\ Decodes
    /\ Subject.verifying_key = << >>
    /\ ~Subject.verify_ok
    /\ ~Allowed(Asserted)
    /\ V.message = << "Verifying key is empty or missing" >>

\* C27: KeyMaterial::get_instance_async called while an initialisation has
\* been started and is not completed waits for it: it returns the instance
\* the initialisation stores, and does not panic where the initialisation
\* goes on to complete.
C27_WaitsForInitialisation ==
    /\ (g_in_flight /\ init_completed) => g_pc # "panicked"
    /\ (g_in_flight /\ g_pc = "returned") => (g_seen # << >> /\ g_seen = key_material)

\* C28: in the dstack variant, INIT completed means INSTANCE holds a key;
\* once a call of KeyMaterial::init has returned, by its early return or
\* after call_once, with another call running beside it or not, INSTANCE
\* holds a key, and get_instance returns that key and does not panic.
C28_CompletedHoldsKey ==
    variant = "dstack" =>
        /\ init_completed => key_material # << >>
        /\ \A t \in Tasks :
              /\ t_pc[t] # "panicked_in_get_instance"
              /\ Returned(t) => (init_completed /\ key_material # << >>)
              /\ t_pc[t] = "observed" => (t_seen[t] = << key_material >> /\ t_seen[t][1] # << >>)
        /\ (g_pc = "returned" /\ ~g_in_flight /\ \E t \in Tasks : Returned(t))
              => g_seen = key_material

\* C28 witness: one call ran the closure while the other was waiting for its
\* own key, the other returned after it, a third party found INIT completed,
\* and both callers have read the key with get_instance.
C28_Witness ==
    /\ variant = "dstack"
    /\ \A t \in Tasks : t_pc[t] = "observed" /\ ~t_late[t] /\ t_requests[t] = 1
    /\ init_completed
    /\ g_pc = "returned"
    /\ ~g_in_flight

\* C29: in the tappd variant an attestation asked for while no key material
\* is stored is answered with the error 'Key material not initialized': no
\* quote request is sent for it, nothing is signed, nothing panics, and no
\* key is made for it; the key material comes from the initialisation only.
C29_NoKeyNoAttestation ==
    variant = "tappd" =>
        /\ a_pc # "panicked"
        /\ a_pc = "await_quote" => key_material # << >>
        /\ a_quote_requests > 0 => key_material # << >>
        /\ (a_pc = "done" /\ a_quote_requests = 0)
              => /\ a_result = << [ok |-> FALSE, message |-> "Key material not initialized"] >>
                 /\ a_quote_request = << >>
                 /\ a_quote_answer = << >>
                 /\ a_status = 500
        /\ key_material = << >> => (a_result = << >> \/ ~a_result[1].ok)
        /\ key_material # << >> <=> stores = 1
        /\ key_material # << >> <=> t_stored_answer # << >>

\* C29 witness: the attestation was asked for before any initialisation was
\* called, and has been answered with the error.
C29_Witness ==
    /\ variant = "tappd"
    /\ \A t \in Tasks : t_pc[t] = "idle"
    /\ key_material = << >>
    /\ a_pc = "done"
    /\ a_result = << [ok |-> FALSE, message |-> "Key material not initialized"] >>
    /\ a_quote_requests = 0

\* C30: a proof that asserts no server identity is given the name
\* '<no server_name>'; it is rejected unless that very string is in the
\* allow-list, and then accepted only when the text sent holds a Host header
\* whose value is that string. With an empty allow-list every proof is
\* rejected.
C30_SentinelRule ==
    Verified =>
        /\ (Proven /\ Output.server_name = << >> /\ ~Allowed(NoServerName)) => ~V.ok
        /\ (Proven /\ Output.server_name = << >> /\ V.ok)
              => /\ V.value.server_name = NoServerName
                 /\ \E k \in 1..Len(lines(SentText)) :
                       /\ IsHostHeader(lines(SentText)[k])
                       /\ HostHeaderValue(lines(SentText)[k]) = NoServerName
        /\ get_server_names(env) = << >> => ~V.ok

=============================================================================
